---- MODULE Spec2Model ----
(***************************************************************************)
(* Mail ingestion and classification pipeline of the Onebox backend:       *)
(* imapService.ts (per-message pipeline), aiCategorizationService.ts       *)
(* (categorizeEmail), emailController.ts (recategorizeEmails sweep).       *)
(***************************************************************************)
EXTENDS Integers, Sequences, FiniteSets, Bags, TLC

(***************************************************************************)
(* Strings.  A JavaScript string is written as a TLA+ string; the          *)
(* operations the code applies to its characters (toLowerCase, trim,       *)
(* includes) are computed on its character sequence Chars(s).              *)
(***************************************************************************)
Chars(s) ==
  CASE s = "" -> <<>>
    [] s = "out of office" -> <<"o","u","t"," ","o","f"," ","o","f","f","i","c","e">>
    [] s = "ooo" -> <<"o","o","o">>
    [] s = "auto-reply" -> <<"a","u","t","o","-","r","e","p","l","y">>
    [] s = "automatic reply" -> <<"a","u","t","o","m","a","t","i","c"," ","r","e","p","l","y">>
    [] s = "meeting" -> <<"m","e","e","t","i","n","g">>
    [] s = "schedule" -> <<"s","c","h","e","d","u","l","e">>
    [] s = "calendar" -> <<"c","a","l","e","n","d","a","r">>
    [] s = "appointment" -> <<"a","p","p","o","i","n","t","m","e","n","t">>
    [] s = "interested" -> <<"i","n","t","e","r","e","s","t","e","d">>
    [] s = "learn more" -> <<"l","e","a","r","n"," ","m","o","r","e">>
    [] s = "pricing" -> <<"p","r","i","c","i","n","g">>
    [] s = "quote" -> <<"q","u","o","t","e">>
    [] s = "demo" -> <<"d","e","m","o">>
    [] s = "not interested" -> <<"n","o","t"," ","i","n","t","e","r","e","s","t","e","d">>
    [] s = "decline" -> <<"d","e","c","l","i","n","e">>
    [] s = "unsubscribe" -> <<"u","n","s","u","b","s","c","r","i","b","e">>
    [] s = "promotion" -> <<"p","r","o","m","o","t","i","o","n">>
    [] s = "promo" -> <<"p","r","o","m","o">>
    [] s = "discount" -> <<"d","i","s","c","o","u","n","t">>
    [] s = "limited time" -> <<"l","i","m","i","t","e","d"," ","t","i","m","e">>
    [] s = "free cash" -> <<"f","r","e","e"," ","c","a","s","h">>
    [] s = "free" -> <<"f","r","e","e">>
    [] s = "money" -> <<"m","o","n","e","y">>
    [] s = "cash" -> <<"c","a","s","h">>
    [] s = "prize" -> <<"p","r","i","z","e">>
    [] s = "click here" -> <<"c","l","i","c","k"," ","h","e","r","e">>
    [] s = "act now" -> <<"a","c","t"," ","n","o","w">>
    [] s = "limited offer" -> <<"l","i","m","i","t","e","d"," ","o","f","f","e","r">>
    [] s = "offer" -> <<"o","f","f","e","r">>
    [] s = "deal" -> <<"d","e","a","l">>
    [] s = "sale" -> <<"s","a","l","e">>
    [] s = "spam" -> <<"s","p","a","m">>
    [] s = "junk" -> <<"j","u","n","k">>
    [] s = "Interested" -> <<"I","n","t","e","r","e","s","t","e","d">>
    [] s = "Meeting Booked" -> <<"M","e","e","t","i","n","g"," ","B","o","o","k","e","d">>
    [] s = "Not Interested" -> <<"N","o","t"," ","I","n","t","e","r","e","s","t","e","d">>
    [] s = "Spam" -> <<"S","p","a","m">>
    [] s = "Out of Office" -> <<"O","u","t"," ","o","f"," ","O","f","f","i","c","e">>
    [] s = "SPAM" -> <<"S","P","A","M">>
    [] s = " interested\n" -> <<" ","i","n","t","e","r","e","s","t","e","d","\n">>
    [] s = "Maybe" -> <<"M","a","y","b","e">>
    [] s = "Interested." -> <<"I","n","t","e","r","e","s","t","e","d",".">>
    [] s = "gpt-3.5-turbo" -> <<"g","p","t","-","3",".","5","-","t","u","r","b","o">>
    [] s = "gpt-4" -> <<"g","p","t","-","4">>
    [] s = "gpt-4-turbo-preview" -> <<"g","p","t","-","4","-","t","u","r","b","o","-","p","r","e","v","i","e","w">>
    [] s = "gpt-4-turbo" -> <<"g","p","t","-","4","-","t","u","r","b","o">>
    [] s = "gpt-4o" -> <<"g","p","t","-","4","o">>
    [] s = "gpt-4o-mini" -> <<"g","p","t","-","4","o","-","m","i","n","i">>
    [] s = "GPT-4o" -> <<"G","P","T","-","4","o">>
    [] s = "gpt-5" -> <<"g","p","t","-","5">>
    [] s = "\\Junk" -> <<"\\","J","u","n","k">>
    [] s = "\\Important" -> <<"\\","I","m","p","o","r","t","a","n","t">>
    [] s = "CATEGORY_PROMOTIONS" -> <<"C","A","T","E","G","O","R","Y","_","P","R","O","M","O","T","I","O","N","S">>
    [] s = "(No Subject)" -> <<"(","N","o"," ","S","u","b","j","e","c","t",")">>
    [] s = "unknown" -> <<"u","n","k","n","o","w","n">>
    [] s = "Re: Budget approved - let's proceed" -> <<"R","e",":"," ","B","u","d","g","e","t"," ","a","p","p","r","o","v","e","d"," ","-"," ","l","e","t","'","s"," ","p","r","o","c","e","e","d">>
    [] s = "Looping in procurement." -> <<"L","o","o","p","i","n","g"," ","i","n"," ","p","r","o","c","u","r","e","m","e","n","t",".">>
    [] s = "Please unsubscribe me." -> <<"P","l","e","a","s","e"," ","u","n","s","u","b","s","c","r","i","b","e"," ","m","e",".">>
    [] s = "Win a free cruise today!!!" -> <<"W","i","n"," ","a"," ","f","r","e","e"," ","c","r","u","i","s","e"," ","t","o","d","a","y","!","!","!">>
    [] s = "Congratulations! Click to claim." -> <<"C","o","n","g","r","a","t","u","l","a","t","i","o","n","s","!"," ","C","l","i","c","k"," ","t","o"," ","c","l","a","i","m",".">>
    [] s = "Pricing?" -> <<"P","r","i","c","i","n","g","?">>
    [] s = "Please share a quote." -> <<"P","l","e","a","s","e"," ","s","h","a","r","e"," ","a"," ","q","u","o","t","e",".">>
    [] s = "OOO" -> <<"O","O","O">>
    [] s = "Auto-Reply" -> <<"A","u","t","o","-","R","e","p","l","y">>
    [] s = "Not interested, thanks" -> <<"N","o","t"," ","i","n","t","e","r","e","s","t","e","d",","," ","t","h","a","n","k","s">>
    [] s = "We must decline" -> <<"W","e"," ","m","u","s","t"," ","d","e","c","l","i","n","e">>
    [] s = "I am zooming" -> <<"I"," ","a","m"," ","z","o","o","m","i","n","g">>
    [] s = "Calendar invite" -> <<"C","a","l","e","n","d","a","r"," ","i","n","v","i","t","e">>
    [] s = "Social media" -> <<"S","o","c","i","a","l"," ","m","e","d","i","a">>
    [] s = "Big Sale" -> <<"B","i","g"," ","S","a","l","e">>
    [] s = "Spam alert" -> <<"S","p","a","m"," ","a","l","e","r","t">>
    [] s = "please unsubscribe me" -> <<"p","l","e","a","s","e"," ","u","n","s","u","b","s","c","r","i","b","e"," ","m","e">>
    [] s = "Hello" -> <<"H","e","l","l","o">>
    [] s = "<p>schedule</p>" -> <<"<","p",">","s","c","h","e","d","u","l","e","<","/","p",">">>
    [] s = "Thanks for the update" -> <<"T","h","a","n","k","s"," ","f","o","r"," ","t","h","e"," ","u","p","d","a","t","e">>
    [] s = "An ideal fit" -> <<"A","n"," ","i","d","e","a","l"," ","f","i","t">>
    [] s = "amelia@helixlabs.ai" -> <<"a","m","e","l","i","a","@","h","e","l","i","x","l","a","b","s",".","a","i">>
    [] s = "Pricing" -> <<"P","r","i","c","i","n","g">>
    [] s = "unsub" -> <<"u","n","s","u","b">>
    [] s = "update unsubscribe" -> <<"u","p","d","a","t","e"," ","u","n","s","u","b","s","c","r","i","b","e">>

LowerChar(c) ==
  CASE c = "A" -> "a" [] c = "B" -> "b" [] c = "C" -> "c" [] c = "D" -> "d"
    [] c = "E" -> "e" [] c = "F" -> "f" [] c = "G" -> "g" [] c = "H" -> "h"
    [] c = "I" -> "i" [] c = "J" -> "j" [] c = "K" -> "k" [] c = "L" -> "l"
    [] c = "M" -> "m" [] c = "N" -> "n" [] c = "O" -> "o" [] c = "P" -> "p"
    [] c = "Q" -> "q" [] c = "R" -> "r" [] c = "S" -> "s" [] c = "T" -> "t"
    [] c = "U" -> "u" [] c = "V" -> "v" [] c = "W" -> "w" [] c = "X" -> "x"
    [] c = "Y" -> "y" [] c = "Z" -> "z" [] OTHER -> c

\* String.prototype.toLowerCase on a character sequence.
toLowerCase(cs) == [i \in 1..Len(cs) |-> LowerChar(cs[i])]

IsSpace(c) == c \in {" ", "\n", "\t", "\r"}

\* String.prototype.trim on a character sequence.
RECURSIVE trimStart(_)
trimStart(cs) ==
  IF cs # <<>> /\ IsSpace(Head(cs)) THEN trimStart(Tail(cs)) ELSE cs

RECURSIVE trimEnd(_)
trimEnd(cs) ==
  IF cs # <<>> /\ IsSpace(cs[Len(cs)]) THEN trimEnd(SubSeq(cs, 1, Len(cs) - 1)) ELSE cs

trim(cs) == trimEnd(trimStart(cs))

\* String.prototype.includes: marker occurs in text as a substring.
includes(text, marker) ==
  LET m == Chars(marker)
  IN  \E i \in 0..(Len(text) - Len(m)) : SubSeq(text, i + 1, i + Len(m)) = m

\* a || b on strings: the empty (or missing) string is falsy.
OrElse(a, b) == IF a = "" THEN b ELSE a

(***************************************************************************)
(* Categories.                                                             *)
(***************************************************************************)
\* email.category is undefined: the record is uncategorized.
Undefined == "<undefined>"

validCategories ==
  <<"Interested", "Meeting Booked", "Not Interested", "Spam", "Out of Office">>

Categories == {validCategories[i] : i \in 1..Len(validCategories)}

(***************************************************************************)
(* Keyword heuristics.                                                     *)
(***************************************************************************)
\* `${a} ${b}` lower-cased.
LowerText(a, b) == toLowerCase(Chars(a) \o <<" ">> \o Chars(b))

\* A variant of the stage-4 heuristics that tests the Not Interested markers before the
\* Interested markers.
imapHeuristicsNotInterestedFirst(subject, body) ==
  LET text == LowerText(subject, body)
  IN  IF includes(text, "out of office") \/ includes(text, "ooo") \/ includes(text, "auto-reply")
        THEN "Out of Office"
      ELSE IF includes(text, "meeting") \/ includes(text, "schedule") \/ includes(text, "calendar")
        THEN "Meeting Booked"
      ELSE IF includes(text, "not interested") \/ includes(text, "decline")
        THEN "Not Interested"
      ELSE IF includes(text, "interested") \/ includes(text, "learn more") \/ includes(text, "pricing")
        THEN "Interested"
      ELSE IF includes(text, "free") \/ includes(text, "cash") \/ includes(text, "promo")
              \/ includes(text, "discount") \/ includes(text, "offer") \/ includes(text, "deal")
              \/ includes(text, "unsubscribe")
        THEN "Spam"
      ELSE Undefined

\* Stage-4 heuristics of the pipeline, run when categorizeEmail returned nothing.
imapHeuristics(subject, body) ==
  LET text == LowerText(subject, body)
  IN  IF includes(text, "out of office") \/ includes(text, "ooo") \/ includes(text, "auto-reply")
        THEN "Out of Office"
      ELSE IF includes(text, "meeting") \/ includes(text, "schedule") \/ includes(text, "calendar")
        THEN "Meeting Booked"
      ELSE IF includes(text, "interested") \/ includes(text, "learn more") \/ includes(text, "pricing")
        THEN "Interested"
      ELSE IF includes(text, "not interested") \/ includes(text, "decline")
        THEN "Not Interested"
      ELSE IF includes(text, "free") \/ includes(text, "cash") \/ includes(text, "promo")
              \/ includes(text, "discount") \/ includes(text, "offer") \/ includes(text, "deal")
              \/ includes(text, "unsubscribe")
        THEN "Spam"
      ELSE Undefined

\* Heuristics of the pipeline's catch block, run when the categorization try block threw.
imapErrorHeuristics(subject, body) ==
  LET text == LowerText(subject, body)
  IN  IF includes(text, "out of office") \/ includes(text, "ooo")
        THEN "Out of Office"
      ELSE IF includes(text, "meeting") \/ includes(text, "schedule")
        THEN "Meeting Booked"
      ELSE IF includes(text, "interested") \/ includes(text, "learn more")
        THEN "Interested"
      ELSE IF includes(text, "spam") \/ includes(text, "unsubscribe") \/ includes(text, "promo")
        THEN "Spam"
      ELSE Undefined

\* A variant whose last resort is Spam.
fallbackHeuristicsDefaultSpam(text) ==
  IF includes(text, "out of office") \/ includes(text, "ooo") THEN "Out of Office"
  ELSE IF includes(text, "meeting") \/ includes(text, "schedule") THEN "Meeting Booked"
  ELSE IF includes(text, "interested") \/ includes(text, "learn more") THEN "Interested"
  ELSE "Spam"

\* The heuristics categorizeEmail falls back to when the classifier is unavailable
\* (the same four lines in each of its five error paths).
fallbackHeuristics(text) ==
  IF includes(text, "out of office") \/ includes(text, "ooo") THEN "Out of Office"
  ELSE IF includes(text, "meeting") \/ includes(text, "schedule") THEN "Meeting Booked"
  ELSE IF includes(text, "interested") \/ includes(text, "learn more") THEN "Interested"
  ELSE IF includes(text, "spam") \/ includes(text, "unsubscribe") \/ includes(text, "promo")
    THEN "Spam"
  ELSE Undefined

\* The heuristics categorizeEmail uses in dummy mode.
dummyHeuristics(text) ==
  IF includes(text, "out of office") \/ includes(text, "ooo") \/ includes(text, "auto-reply")
     \/ includes(text, "automatic reply")
    THEN "Out of Office"
  ELSE IF includes(text, "meeting") \/ includes(text, "schedule") \/ includes(text, "calendar")
          \/ includes(text, "appointment")
    THEN "Meeting Booked"
  ELSE IF includes(text, "interested") \/ includes(text, "learn more") \/ includes(text, "pricing")
          \/ includes(text, "quote") \/ includes(text, "demo")
    THEN "Interested"
  ELSE IF includes(text, "not interested") \/ includes(text, "decline") \/ includes(text, "unsubscribe")
    THEN "Not Interested"
  ELSE IF includes(text, "unsubscribe") \/ includes(text, "promotion") \/ includes(text, "promo")
          \/ includes(text, "discount") \/ includes(text, "limited time") \/ includes(text, "free cash")
          \/ (includes(text, "free")
               /\ (includes(text, "money") \/ includes(text, "cash") \/ includes(text, "prize")))
          \/ includes(text, "click here") \/ includes(text, "act now") \/ includes(text, "limited offer")
    THEN "Spam"
  ELSE IF includes(text, "free") \/ includes(text, "offer") \/ includes(text, "deal")
          \/ includes(text, "sale")
    THEN "Spam"
  ELSE Undefined

(***************************************************************************)
(* categorizeEmail.                                                        *)
(***************************************************************************)
validModels ==
  {"gpt-3.5-turbo", "gpt-4", "gpt-4-turbo-preview", "gpt-4-turbo", "gpt-4o", "gpt-4o-mini"}

\* process.env.OPENAI_MODEL || 'gpt-3.5-turbo', then validModels.includes(model.toLowerCase()).
ModelIsValid(openaiModel) ==
  LET model == OrElse(openaiModel, "gpt-3.5-turbo")
  IN  \E v \in validModels : Chars(v) = toLowerCase(Chars(model))

\* A variant that returns the reply without matching it against the five names.
matchCategoryRaw(reply) ==
  LET category == trim(Chars(reply))
  IN  IF category = <<>> THEN Undefined ELSE reply

\* The classifier's reply matched against the five names, case-insensitively after trim.
matchCategory(reply) ==
  LET category == trim(Chars(reply))
      matching == {i \in 1..Len(validCategories) :
                     toLowerCase(Chars(validCategories[i])) = toLowerCase(category)}
  IN  IF category = <<>> THEN Undefined
      ELSE IF matching # {} THEN validCategories[CHOOSE i \in matching : \A j \in matching : i <= j]
      ELSE Undefined

\* A variant without the try/catch: an error of the chat-completion call is raised.
categorizeEmailRaises(email, env, outcome) ==
  LET emailBody == OrElse(email.body, email.html)
      text      == LowerText(email.subject, emailBody)
  IN  IF env.dummy THEN dummyHeuristics(text)
      ELSE IF ~env.apiKey THEN fallbackHeuristics(text)
      ELSE IF ~ModelIsValid(env.model) THEN fallbackHeuristics(text)
      ELSE IF outcome.kind = "reply" THEN matchCategory(outcome.content)
      ELSE "<raised>"

\* env: [dummy, apiKey, model]; outcome: what the chat-completion call does,
\* [kind |-> "reply", content] or [kind |-> "error", error].
categorizeEmail(email, env, outcome) ==
  LET emailBody == OrElse(email.body, email.html)
      text      == LowerText(email.subject, emailBody)
  IN  IF env.dummy THEN dummyHeuristics(text)
      ELSE IF ~env.apiKey THEN fallbackHeuristics(text)
      ELSE IF ~ModelIsValid(env.model) THEN fallbackHeuristics(text)
      ELSE IF outcome.kind = "reply" THEN matchCategory(outcome.content)
      ELSE fallbackHeuristics(text)

\* Whether categorizeEmail reaches the chat-completion call.
CallsClassifier(env) == ~env.dummy /\ env.apiKey /\ ModelIsValid(env.model)

\* The category the pipeline resolves for a record without one: categorizeEmail,
\* then the stage-4 heuristics when it returned nothing.
resolveCategory(email, env, outcome) ==
  LET category == categorizeEmail(email, env, outcome)
  IN  IF category # Undefined
        THEN [category |-> category, stage |-> "classifier"]
        ELSE [category |-> imapHeuristics(email.subject, email.body), stage |-> "heuristics"]

(***************************************************************************)
(* Bounds.                                                                 *)
(***************************************************************************)
\* Number of per-message handler runs (fetched messages) in a behaviour.
MaxRuns == 2

\* Number of re-categorization sweeps in a behaviour.
MaxSweeps == 1

\* Largest value Date.now() takes.
MaxClock == 1

\* .limit(100) of the sweep's query.
SweepLimit == 100

Runs == 1..MaxRuns

(***************************************************************************)
(* The mailbox: the raw messages a fetch can deliver, as simpleParser      *)
(* returns them, with the provider labels of their attributes.  A missing  *)
(* header is the empty string (date: 0).  Messages 1 and 2 carry the same  *)
(* Message-ID with different bodies; message 3 has no Message-ID.          *)
(***************************************************************************)
Mailbox ==
  << [account |-> "demo@acme.com", seqno |-> 1, messageId |-> "<m1@helixlabs.ai>",
      labels |-> <<>>, from |-> "amelia@helixlabs.ai", to |-> <<"demo@acme.com">>,
      subject |-> "Pricing?", text |-> "Please unsubscribe me.", html |-> "",
      date |-> 3, attachments |-> <<>>],
     [account |-> "sales@acme.com", seqno |-> 1, messageId |-> "<m1@helixlabs.ai>",
      labels |-> <<"\\Junk">>, from |-> "", to |-> <<"sales@acme.com">>,
      subject |-> "", text |-> "Thanks for the update", html |-> "<p>schedule</p>",
      date |-> 3, attachments |-> <<[filename |-> "", size |-> 0]>>],
     [account |-> "demo@acme.com", seqno |-> 2, messageId |-> "",
      labels |-> <<>>, from |-> "amelia@helixlabs.ai", to |-> <<"demo@acme.com">>,
      subject |-> "Pricing?", text |-> "Please unsubscribe me.", html |-> "",
      date |-> 3, attachments |-> <<>>] >>

\* The messages that carry a Message-ID header, and those that do not.
Messages == {m \in DOMAIN Mailbox : Mailbox[m].messageId # ""}

Unidentified == DOMAIN Mailbox \ Messages

(***************************************************************************)
(* Label hint.                                                             *)
(***************************************************************************)
mapGmailLabelsToCategory(labels) ==
  LET normalized == [i \in 1..Len(labels) |-> toLowerCase(Chars(labels[i]))]
      some(marker) == \E i \in 1..Len(normalized) : includes(normalized[i], marker)
  IN  IF Len(labels) = 0 THEN Undefined
      ELSE IF some("spam") \/ some("junk") THEN "Spam"
      ELSE IF some("interested") THEN "Interested"
      ELSE Undefined

(***************************************************************************)
(* Message Store (the Email collection) and Search Index.                  *)
(***************************************************************************)
Paths == {"account", "folder", "from", "to", "subject", "body", "html", "date",
          "attachments", "category"}

\* No document (findOne returned null).
NoEmail ==
  [_id |-> 0, messageId |-> <<>>, account |-> "", folder |-> "", from |-> "", to |-> <<>>,
   subject |-> "", body |-> "", html |-> "", date |-> 0, attachments |-> <<>>,
   category |-> Undefined, isRead |-> FALSE, isFlagged |-> FALSE]

\* parsed.messageId, or `${account}-${Date.now()}-${seqno}`.
MessageIdOf(raw, now) ==
  IF raw.messageId # "" THEN <<raw.messageId>> ELSE <<raw.account, now, raw.seqno>>

\* The field values both branches of the pipeline derive from the parsed message.
Normalized(raw, now) ==
  [account     |-> raw.account,
   folder      |-> "INBOX",
   from        |-> OrElse(raw.from, "unknown"),
   to          |-> raw.to,
   subject     |-> OrElse(raw.subject, "(No Subject)"),
   body        |-> raw.text,
   html        |-> raw.html,
   date        |-> IF raw.date # 0 THEN raw.date ELSE now,
   attachments |-> [i \in 1..Len(raw.attachments) |->
                      [filename |-> OrElse(raw.attachments[i].filename, "unknown"),
                       size     |-> raw.attachments[i].size]]]

\* Email.findOne({ messageId }): the first matching document, or null.
findOne(st, messageId) ==
  LET hits == {d \in DOMAIN st : st[d].messageId = messageId}
  IN  IF hits = {} THEN NoEmail ELSE st[CHOOSE d \in hits : \A e \in hits : d <= e]

\* Email.findById(_id).
findById(st, id) == st[id]

\* A variant of save that replaces the record by the in-memory document.
saveWholeDocument(st, email, dirty) ==
  [st EXCEPT ![email._id] = email]

\* document.save(): the modified paths of the document are written to its record.
save(st, email, dirty) ==
  [st EXCEPT ![email._id] = [p \in DOMAIN @ |-> IF p \in dirty THEN email[p] ELSE @[p]]]

\* Assigning value v to path p of a loaded document marks p modified when v differs.
Assign(doc, dirty, p, v) ==
  [email |-> [doc EXCEPT ![p] = v], dirty |-> IF doc[p] # v THEN dirty \cup {p} ELSE dirty]

\* The Search Index document written for an email (id = messageId).
IndexDocument(email) ==
  [id |-> email.messageId, account |-> email.account, folder |-> email.folder,
   from |-> email.from, to |-> email.to, subject |-> email.subject, body |-> email.body,
   date |-> email.date, category |-> email.category]

\* client.index({ id, document }): create or replace the document with that id.
indexWrite(idx, doc) == {x \in idx : x.id # doc.id} \cup {doc}

(***************************************************************************)
(* The connector: one IMAP session per account (connectAndSync), its       *)
(* listeners, the fetches in progress and the 'body' handlers they started.*)
(***************************************************************************)
\* Number of connectAndSync calls per account in a behaviour.
MaxSessions == 2

\* Number of new-mail notifications per account in a behaviour.
MaxMail == 1

\* Number of messages the fetches of one account deliver in a behaviour.
MaxMessages == 2

\* IMAP_ACCOUNTS, in the order startImapSync walks them.
AccountList == <<Mailbox[1].account, Mailbox[2].account>>

Accounts == {AccountList[i] : i \in 1..Len(AccountList)}

\* An account startImapSync has not reached: no Imap object.
NoSession ==
  [phase |-> "off", errorListener |-> FALSE, endListener |-> FALSE, mailListeners |-> 0,
   timers |-> 0, sessions |-> 0, registry |-> 0, mails |-> 0, searches |-> 0, fetches |-> <<>>,
   emitted |-> 0, inflight |-> {}, log |-> <<>>]

NoConnectors == [a \in Accounts |-> NoSession]

\* A variant that reuses the session object, its 'mail' listeners included.
NewSessionKeepsListeners(c) ==
  [c EXCEPT !.phase = "connecting", !.errorListener = TRUE, !.endListener = TRUE,
            !.sessions = @ + 1, !.searches = 0, !.fetches = <<>>]

\* new Imap(config), imap.once('ready' | 'error' | 'end'), imap.connect(): a new session
\* object with its three one-shot listeners and no 'mail' listener.
NewSession(c) ==
  [c EXCEPT !.phase = "connecting", !.errorListener = TRUE, !.endListener = TRUE,
            !.mailListeners = 0, !.sessions = @ + 1, !.searches = 0, !.fetches = <<>>]

\* A variant in which all accounts share one session object.
connectAndSyncShared(cn, a) == [b \in DOMAIN cn |-> NewSession(cn[b])]

\* connectAndSync(config) for account a: the new session, entered in imapConnections
\* under the account (registry: the number of the session the entry points to).
connectAndSync(cn, a) ==
  LET imap == NewSession(cn[a])
  IN  [cn EXCEPT ![a] = [imap EXCEPT !.registry = imap.sessions]]

\* startIdleMode: imap.on('mail', ...) registers one more listener.
startIdleMode(c) == [c EXCEPT !.mailListeners = @ + 1, !.phase = "up"]

\* The socket is gone: its pending commands and fetch streams never answer.
Closed(c) == [c EXCEPT !.phase = "closed", !.searches = 0, !.fetches = <<>>]

(***************************************************************************)
(* Search Gateway: the index service as the client sees it, the cached     *)
(* health result and the calls of checkElasticsearchConnection and         *)
(* searchEmails in progress.                                               *)
(***************************************************************************)
\* Calls in progress at a time.
MaxCalls == 2

\* Largest value Date.now() takes in a gateway behaviour (ms).
MaxNow == 31000

\* const CONNECTION_CHECK_INTERVAL = 30000
CONNECTION_CHECK_INTERVAL == 30000

\* setTimeout(() => reject(new Error('Connection timeout')), 2000)
PingTimeout == 2000

\* size: 100 of client.search and .limit(100) of Email.find
SearchSize == 100

\* Number of records of the large corpus.
BigCorpusSize == 101

Calls == 1..MaxCalls

IdleCall ==
  [pc |-> "idle", kind |-> "", now |-> 0, query |-> "",
   filters |-> [account |-> "", folder |-> "", category |-> ""],
   isAvailable |-> FALSE, notFound |-> FALSE, ensured |-> 0, path |-> "", result |-> <<>>]

\* lastPing: whether the ping that completed last succeeded, the time its call had read
\* before issuing it (at) and the time it completed (done).
NoGateway ==
  [now |-> 0, es |-> "up", indexExists |-> TRUE,
   elasticsearchAvailable |-> FALSE, lastConnectionCheck |-> 0,
   lastPing |-> [ok |-> FALSE, at |-> 0, done |-> 0],
   calls |-> [c \in Calls |-> IdleCall]]

\* Arguments of searchEmails: a filter that is not supplied is "".
Queries == {"", "Pricing", "unsub", "update unsubscribe"}

Filters ==
  [account : {"", "demo@acme.com"}, folder : {"", "INBOX"}, category : {"", "Spam"}]

StoredEmail(id, messageId, account, from, subject, body, date, category) ==
  [_id |-> id, messageId |-> messageId, account |-> account, folder |-> "INBOX",
   from |-> from, to |-> <<account>>, subject |-> subject, body |-> body, html |-> "",
   date |-> date, attachments |-> <<>>, category |-> category,
   isRead |-> FALSE, isFlagged |-> FALSE]

\* Stores the pipeline leaves behind: three records of two accounts, and BigCorpusSize
\* records of one account received one after the other without a Message-ID.
SmallCorpus ==
  << StoredEmail(1, <<"<m1@helixlabs.ai>">>, "demo@acme.com", "amelia@helixlabs.ai",
                 "Pricing?", "Please unsubscribe me.", 3, "Interested"),
     StoredEmail(2, <<"<m2@helixlabs.ai>">>, "sales@acme.com", "unknown",
                 "(No Subject)", "Thanks for the update", 1, "Spam"),
     StoredEmail(3, <<"demo@acme.com", 2, 1>>, "demo@acme.com", "amelia@helixlabs.ai",
                 "Spam alert", "please unsubscribe me", 2, Undefined) >>

Corpora ==
  LET BigCorpus ==
        [i \in 1..BigCorpusSize |->
           StoredEmail(i, <<"demo@acme.com", i, i>>, "demo@acme.com", "unknown",
                       "Big Sale", "Hello", i, "Spam")]
  IN  {SmallCorpus, BigCorpus}

\* The Search Index that holds exactly the records of a store.
IndexOf(st) == {IndexDocument(st[i]) : i \in DOMAIN st}

RECURSIVE SetToSeq(_)
SetToSeq(S) ==
  IF S = {} THEN <<>>
  ELSE LET x == CHOOSE y \in S : TRUE IN <<x>> \o SetToSeq(S \ {x})

RECURSIVE byDateDesc(_, _)
byDateDesc(S, d) ==
  IF S = {} THEN <<>>
  ELSE LET ofDate == {x \in S : x.date = d}
       IN  SetToSeq(ofDate) \o byDateDesc(S \ ofDate, d - 1)

\* sort by date, newest first (documents of one date in the order the service picks).
sortByDateDesc(S) ==
  IF S = {} THEN <<>>
  ELSE byDateDesc(S, (CHOOSE x \in S : \A y \in S : y.date <= x.date).date)

\* A variant without the cap.
TakeAll(s, n) == s

\* The first n elements of a sequence (size / limit).
Take(s, n) == SubSeq(s, 1, IF Len(s) < n THEN Len(s) ELSE n)

\* Position i of l belongs to a token: a letter or digit (after lower-casing), or a "."
\* or "'" between two letters or between two digits.
InToken(l, i) ==
  LET WordChars ==
        {"a", "b", "c", "d", "e", "f", "g", "h", "i", "j", "k", "l", "m", "n", "o", "p",
         "q", "r", "s", "t", "u", "v", "w", "x", "y", "z"}
      DigitChars == {"0", "1", "2", "3", "4", "5", "6", "7", "8", "9"}
  IN  \/ l[i] \in WordChars \cup DigitChars
      \/ /\ l[i] \in {".", "'"} /\ 1 < i /\ i < Len(l)
         /\ \/ l[i - 1] \in WordChars /\ l[i + 1] \in WordChars
            \/ l[i - 1] \in DigitChars /\ l[i + 1] \in DigitChars

\* The standard analyzer of a text field: the lower-cased words of the text.
Tokens(s) ==
  LET l == toLowerCase(Chars(s))
  IN  { SubSeq(l, ij[1], ij[2]) : ij \in
          { ij \in (1..Len(l)) \X (1..Len(l)) :
              /\ ij[1] <= ij[2]
              /\ \A k \in ij[1]..ij[2] : InToken(l, k)
              /\ ij[1] = 1 \/ ~InToken(l, ij[1] - 1)
              /\ ij[2] = Len(l) \/ ~InToken(l, ij[2] + 1) } }

\* multi_match: { query, fields: ['subject^2', 'body', 'from'] }: some word of the query
\* is a word of one of the fields.
multi_match(doc, query) ==
  \E f \in {"subject", "body", "from"} : Tokens(doc[f]) \cap Tokens(query) # {}

\* { term: { field: value } } clauses, and the equality conditions of Email.find, for
\* the supplied filters.
TermsMatch(doc, filters) ==
  \A f \in {"account", "folder", "category"} : filters[f] # "" => doc[f] = filters[f]

\* client.search({ query: { bool: { must } }, sort: [{ date: 'desc' }], size: 100 }).
indexSearch(idx, query, filters) ==
  Take(sortByDateDesc({x \in idx : /\ query # "" => multi_match(x, query)
                                  /\ TermsMatch(x, filters)}), SearchSize)

\* Occurrence of a character sequence in a text.
includesChars(text, m) ==
  \E i \in 0..(Len(text) - Len(m)) : SubSeq(text, i + 1, i + Len(m)) = m

\* { $regex: queryLower, $options: 'i' } for a pattern of letters and spaces.
regexMatch(s, pattern) == includesChars(toLowerCase(Chars(s)), toLowerCase(pattern))

\* Email.find(searchFilter).sort({ date: -1 }).limit(100).lean()
storeSearch(st, query, filters) ==
  LET queryLower == toLowerCase(Chars(query))
      hits == {i \in DOMAIN st :
                 /\ TermsMatch(st[i], filters)
                 /\ query # "" => \E f \in {"subject", "body", "from"} :
                                    regexMatch(st[i][f], queryLower)}
  IN  Take(sortByDateDesc({st[i] : i \in hits}), SearchSize)

VARIABLES
  uniqueIndex,   \* whether the Email schema declares messageId unique
  env,           \* classifier configuration: [dummy, apiKey, model]
  store,         \* Message Store: sequence of documents, _id = position
  index,         \* Search Index: set of documents
  runs,          \* per-message handlers of fetchAndProcessEmails
  sweep,         \* the recategorizeEmails request in progress
  sweeps,        \* number of sweeps started
  slackCalls,    \* bag of records handed to sendSlackNotification
  webhookCalls,  \* bag of records handed to triggerWebhook
  emitted,       \* bag of records emitted as 'new-email'
  heur,          \* input and result of a categorization of one text
  conn,          \* per account: the connector and its IMAP session
  gw,            \* Search Gateway: index service, health cache, calls in progress
  fetched        \* per fetched message: its events and the handler's label hint

vars == <<uniqueIndex, env, store, index, runs, sweep, sweeps, slackCalls, webhookCalls,
          emitted, heur, conn, gw, fetched>>

pipelineVars == <<uniqueIndex, env, store, index, runs, sweep, sweeps, slackCalls,
                  webhookCalls, emitted>>

NoOutcome == [kind |-> "none", content |-> ""]

IdleRun ==
  [pc |-> "idle", status |-> "", msg |-> 0, labelCategory |-> Undefined, branch |-> "",
   email |-> NoEmail, dirty |-> {}, outcome |-> NoOutcome]

\* batch: the emails of uncategorizedEmails the loop has not finished, the current one first.
IdleSweep ==
  [pc |-> "idle", batch |-> <<>>, total |-> 0, categorized |-> 0, failed |-> 0,
   result |-> [total |-> 0, categorized |-> 0, failed |-> 0]]

\* Classifier configurations of a deployment that runs the IMAP sync.
Environments ==
  { [dummy |-> FALSE, apiKey |-> FALSE, model |-> ""],
    [dummy |-> FALSE, apiKey |-> TRUE,  model |-> ""] }

\* What the chat-completion call can do.
ClassifierReplies == {"Interested", "SPAM", "Maybe", ""}

ClassifierErrors == {"quota"}

Outcomes ==
  {[kind |-> "reply", content |-> c] : c \in ClassifierReplies}
    \cup {[kind |-> "error", content |-> e] : e \in ClassifierErrors}

HeurIdle == [pc |-> "idle"]

\* No fetch is being observed.
NoFetch == <<>>

PipelineInit ==
  /\ uniqueIndex \in BOOLEAN
  /\ env \in Environments
  /\ store = <<>>
  /\ index = {}
  /\ runs = [r \in Runs |-> IdleRun]
  /\ sweep = IdleSweep
  /\ sweeps = 0
  /\ slackCalls = EmptyBag
  /\ webhookCalls = EmptyBag
  /\ emitted = EmptyBag

Init == PipelineInit /\ heur = HeurIdle /\ conn = NoConnectors /\ gw = NoGateway /\ fetched = NoFetch

(***************************************************************************)
(* fetchAndProcessEmails: the handler of one fetched message.  Each action *)
(* is the code between two awaits; a store or index call takes effect in   *)
(* the action that follows the one issuing it.                             *)
(***************************************************************************)
\* JavaScript truthiness of email.category.
Truthy(category) == category # Undefined /\ category # ""

\* const hasCategory = email.category && email.category.trim() !== ''
hasCategory(email) == Truthy(email.category) /\ trim(Chars(email.category)) # <<>>

\* A variant of the update branch that applies the label hint unconditionally.
MergeExistingLabelWins(doc, n, labelCategory) ==
  LET merged  == [p \in DOMAIN doc |-> IF p \in DOMAIN n THEN n[p] ELSE doc[p]]
      withCat == IF labelCategory # Undefined
                   THEN [merged EXCEPT !.category = labelCategory] ELSE merged
  IN  [email |-> withCat, dirty |-> {p \in Paths : withCat[p] # doc[p]}]

\* A variant of the update branch that leaves the body of the loaded document.
MergeExistingKeepsBody(doc, n, labelCategory) ==
  LET merged  == [p \in DOMAIN doc |->
                    IF p \in DOMAIN n /\ p # "body" THEN n[p] ELSE doc[p]]
      withCat == IF ~Truthy(doc.category) /\ labelCategory # Undefined
                   THEN [merged EXCEPT !.category = labelCategory] ELSE merged
  IN  [email |-> withCat, dirty |-> {p \in Paths : withCat[p] # doc[p]}]

\* The update branch: every field but category is overwritten; the label hint is
\* applied only when the loaded document has no category.
MergeExisting(doc, n, labelCategory) ==
  LET merged  == [p \in DOMAIN doc |-> IF p \in DOMAIN n THEN n[p] ELSE doc[p]]
      withCat == IF ~Truthy(doc.category) /\ labelCategory # Undefined
                   THEN [merged EXCEPT !.category = labelCategory] ELSE merged
  IN  [email |-> withCat, dirty |-> {p \in Paths : withCat[p] # doc[p]}]

\* The create branch: the document Email.create is asked to insert.
NewEmail(id, messageId, n, labelCategory) ==
  [_id |-> id, messageId |-> messageId, account |-> n.account, folder |-> n.folder,
   from |-> n.from, to |-> n.to, subject |-> n.subject, body |-> n.body, html |-> n.html,
   date |-> n.date, isRead |-> FALSE, isFlagged |-> FALSE, attachments |-> n.attachments,
   category |-> labelCategory]

\* A variant that notifies for every record.
ShouldNotifyAlways(email) == TRUE

\* if (email.category === 'Interested')
ShouldNotify(email) == email.category = "Interested"

Notice(email) == [id |-> email._id, category |-> email.category]

\* The handler returns: its locals are gone.
Finished(run, status) == [IdleRun EXCEPT !.pc = "done", !.status = status, !.msg = run.msg]

\* A variant in which the exception escapes the handler and ends the handlers in progress.
catchErrorRethrows(rs, r, status) ==
  [q \in DOMAIN rs |->
     IF q = r THEN Finished(rs[q], status)
     ELSE IF rs[q].pc \notin {"idle", "done"} THEN Finished(rs[q], "aborted")
     ELSE rs[q]]

\* try { ... } catch (error) { console.error(...) } around the whole handler: an
\* exception ends this handler alone.
catchError(rs, r, status) == [rs EXCEPT ![r] = Finished(@, status)]

\* How the calls of the notification collaborators can end: both answer, the chat
\* alert fails, or the webhook fails.
NotificationOutcomes == {"ok", "chat_fails", "webhook_fails"}

\* A variant that categorizes every record, whatever category it has.
AfterPersistAlwaysCategorizes(run) == [run EXCEPT !.pc = "categorize"]

\* After the record is persisted: categorize when it has no category, else index.
AfterPersist(run) ==
  [run EXCEPT !.pc = IF hasCategory(run.email) THEN "index" ELSE "categorize"]

\* The 'body' event of message m: parse, derive the label hint and the messageId,
\* issue Email.findOne; or simpleParser throws, which the handler catches.
StartRun(r, m) ==
  /\ runs[r].pc = "idle"
  /\ \A q \in Runs : q < r => runs[q].pc # "idle"
  /\ \/ runs' = [runs EXCEPT ![r] = [@ EXCEPT !.pc = "findOne", !.msg = m,
                    !.labelCategory = mapGmailLabelsToCategory(Mailbox[m].labels)]]
     \/ runs' = catchError([runs EXCEPT ![r].msg = m], r, "parse_error")
  /\ UNCHANGED <<uniqueIndex, env, store, index, sweep, sweeps, slackCalls, webhookCalls,
                 emitted, heur, conn, gw, fetched>>

\* Email.findOne answers: merge into the found document and issue save, or issue create;
\* or the lookup fails, which the handler catches.
FindOne(r) ==
  /\ runs[r].pc = "findOne"
  /\ \E now \in 0..MaxClock :
       LET raw       == Mailbox[runs[r].msg]
           messageId == MessageIdOf(raw, now)
           n         == Normalized(raw, now)
           found     == findOne(store, messageId)
       IN  /\ (raw.messageId # "" /\ raw.date # 0) => now = 0
           /\ \/ IF found # NoEmail
                   THEN LET m == MergeExisting(found, n, runs[r].labelCategory)
                        IN  runs' = [runs EXCEPT ![r] = [@ EXCEPT !.pc = "save",
                                       !.branch = "update", !.email = m.email, !.dirty = m.dirty]]
                   ELSE runs' = [runs EXCEPT ![r] = [@ EXCEPT !.pc = "create",
                                   !.branch = "create",
                                   !.email = NewEmail(0, messageId, n, runs[r].labelCategory)]]
              \/ runs' = catchError(runs, r, "store_error")
  /\ UNCHANGED <<uniqueIndex, env, store, index, sweep, sweeps, slackCalls, webhookCalls,
                 emitted, heur, conn, gw, fetched>>

\* email.save() of the update branch takes effect, or fails (caught by the handler).
SaveExisting(r) ==
  /\ runs[r].pc = "save"
  /\ \/ /\ store' = save(store, runs[r].email, runs[r].dirty)
        /\ runs' = [runs EXCEPT ![r] = AfterPersist([@ EXCEPT !.dirty = {}])]
     \/ /\ runs' = catchError(runs, r, "store_error")
        /\ UNCHANGED store
  /\ UNCHANGED <<uniqueIndex, env, index, sweep, sweeps, slackCalls, webhookCalls, emitted, heur, conn, gw, fetched>>

\* Whether the store rejects an insert with this messageId: only when the Email schema
\* declares messageId unique and a record with it exists.
RejectsDuplicate(st, messageId) == uniqueIndex /\ findOne(st, messageId) # NoEmail

\* Email.create takes effect, or is rejected (duplicate key under a unique index, or a
\* write failure), which the handler catches.
Create(r) ==
  /\ runs[r].pc = "create"
  /\ LET duplicate == RejectsDuplicate(store, runs[r].email.messageId)
         email     == [runs[r].email EXCEPT !._id = Len(store) + 1]
     IN  \/ /\ ~duplicate
            /\ store' = Append(store, email)
            /\ runs' = [runs EXCEPT ![r] = AfterPersist([@ EXCEPT !.email = email])]
         \/ /\ duplicate
            /\ runs' = catchError(runs, r, "duplicate_key")
            /\ UNCHANGED store
         \/ /\ runs' = catchError(runs, r, "store_error")
            /\ UNCHANGED store
  /\ UNCHANGED <<uniqueIndex, env, index, sweep, sweeps, slackCalls, webhookCalls, emitted, heur, conn, gw, fetched>>

\* categorizeEmail is called; the chat-completion call, when reached, is answered.
Classify(r) ==
  /\ runs[r].pc = "categorize"
  /\ \E outcome \in IF CallsClassifier(env) THEN Outcomes ELSE {NoOutcome} :
       runs' = [runs EXCEPT ![r] = [@ EXCEPT !.pc = "resolve", !.outcome = outcome]]
  /\ UNCHANGED <<uniqueIndex, env, store, index, sweep, sweeps, slackCalls, webhookCalls,
                 emitted, heur, conn, gw, fetched>>

\* categorizeEmail returns; its category, or else the stage-4 heuristics' category, is
\* assigned and its save issued; with neither, the record stays uncategorized.
Resolve(r) ==
  /\ runs[r].pc = "resolve"
  /\ LET res == resolveCategory(runs[r].email, env, runs[r].outcome)
         a   == Assign(runs[r].email, runs[r].dirty, "category", res.category)
     IN  runs' = [runs EXCEPT ![r] =
                    IF res.category # Undefined
                      THEN [@ EXCEPT !.pc = "saveCategory",
                                     !.email = a.email, !.dirty = a.dirty]
                      ELSE [@ EXCEPT !.pc = "index", !.outcome = NoOutcome]]
  /\ UNCHANGED <<uniqueIndex, env, store, index, sweep, sweeps, slackCalls, webhookCalls,
                 emitted, heur, conn, gw, fetched>>

\* The save of the resolved category takes effect; or it fails and the catch block
\* assigns the category of its own heuristics, if any, and issues another save.
SaveCategory(r) ==
  /\ runs[r].pc = "saveCategory"
  /\ \/ /\ store' = save(store, runs[r].email, runs[r].dirty)
        /\ runs' = [runs EXCEPT ![r] = [@ EXCEPT !.pc = "reload", !.dirty = {},
                                                !.outcome = NoOutcome]]
     \/ /\ LET fallbackCategory ==
                 imapErrorHeuristics(runs[r].email.subject, runs[r].email.body)
               a == Assign(runs[r].email, runs[r].dirty, "category", fallbackCategory)
           IN  runs' = [runs EXCEPT ![r] =
                          IF fallbackCategory # Undefined
                            THEN [@ EXCEPT !.pc = "saveFallback", !.outcome = NoOutcome,
                                           !.email = a.email, !.dirty = a.dirty]
                            ELSE [@ EXCEPT !.pc = "index", !.outcome = NoOutcome]]
        /\ UNCHANGED store
  /\ UNCHANGED <<uniqueIndex, env, index, sweep, sweeps, slackCalls, webhookCalls, emitted, heur, conn, gw, fetched>>

\* The save issued by the catch block takes effect, or fails (logged).
SaveFallback(r) ==
  /\ runs[r].pc = "saveFallback"
  /\ \/ /\ store' = save(store, runs[r].email, runs[r].dirty)
        /\ runs' = [runs EXCEPT ![r] = [@ EXCEPT !.pc = "reload", !.dirty = {}]]
     \/ /\ runs' = [runs EXCEPT ![r] = [@ EXCEPT !.pc = "index"]]
        /\ UNCHANGED store
  /\ UNCHANGED <<uniqueIndex, env, index, sweep, sweeps, slackCalls, webhookCalls, emitted, heur, conn, gw, fetched>>

\* Email.findById answers: the handler continues with the record as stored.
Reload(r) ==
  /\ runs[r].pc = "reload"
  /\ runs' = [runs EXCEPT ![r] = [@ EXCEPT !.pc = "index", !.dirty = {},
                 !.email = findById(store, runs[r].email._id)]]
  /\ UNCHANGED <<uniqueIndex, env, store, index, sweep, sweeps, slackCalls, webhookCalls,
                 emitted, heur, conn, gw, fetched>>

\* indexEmail: the document is written, or the index call fails (logged).
Index(r) ==
  /\ runs[r].pc = "index"
  /\ \/ index' = indexWrite(index, IndexDocument(runs[r].email))
     \/ UNCHANGED index
  /\ runs' = [runs EXCEPT ![r] = [@ EXCEPT !.pc = "notify"]]
  /\ UNCHANGED <<uniqueIndex, env, store, sweep, sweeps, slackCalls, webhookCalls, emitted, heur, conn, gw, fetched>>

\* A variant in which a failed notification takes the category back.
NotifyRollsBack(r) ==
  /\ runs[r].pc = "notify"
  /\ LET email == runs[r].email
         one   == SetToBag({Notice(email)})
     IN  IF ShouldNotify(email)
           THEN \E o \in NotificationOutcomes :
                  /\ slackCalls' = slackCalls (+) one
                  /\ webhookCalls' = IF o = "chat_fails" THEN webhookCalls
                                     ELSE webhookCalls (+) one
                  /\ emitted' = IF o = "ok" THEN emitted (+) one ELSE emitted
                  /\ runs' = IF o = "ok" THEN [runs EXCEPT ![r] = Finished(@, "processed")]
                             ELSE catchError(runs, r, "notify_error")
                  /\ store' = IF o = "ok" THEN store
                              ELSE [store EXCEPT ![email._id].category = Undefined]
                  /\ index' = IF o = "ok" THEN index
                              ELSE {x \in index : x.id # email.messageId}
           ELSE /\ emitted' = emitted (+) one
                /\ runs' = [runs EXCEPT ![r] = Finished(@, "processed")]
                /\ UNCHANGED <<slackCalls, webhookCalls, store, index>>
  /\ UNCHANGED <<uniqueIndex, env, sweep, sweeps, heur, conn, gw, fetched>>

\* The notifications, when the handler's record is Interested, then the realtime event.
\* A collaborator that fails throws: the handler's catch logs it and the handler ends.
Notify(r) ==
  /\ runs[r].pc = "notify"
  /\ LET email == runs[r].email
         one   == SetToBag({Notice(email)})
     IN  IF ShouldNotify(email)
           THEN \E o \in NotificationOutcomes :
                  /\ slackCalls' = slackCalls (+) one
                  /\ webhookCalls' = IF o = "chat_fails" THEN webhookCalls
                                     ELSE webhookCalls (+) one
                  /\ emitted' = IF o = "ok" THEN emitted (+) one ELSE emitted
                  /\ runs' = IF o = "ok" THEN [runs EXCEPT ![r] = Finished(@, "processed")]
                             ELSE catchError(runs, r, "notify_error")
           ELSE /\ emitted' = emitted (+) one
                /\ runs' = [runs EXCEPT ![r] = Finished(@, "processed")]
                /\ UNCHANGED <<slackCalls, webhookCalls>>
  /\ UNCHANGED <<uniqueIndex, env, store, index, sweep, sweeps, heur, conn, gw, fetched>>

(***************************************************************************)
(* recategorizeEmails: the re-categorization sweep.                        *)
(***************************************************************************)
\* A variant of the query that returns the last SweepLimit matches.
UncategorizedFromEnd(st) ==
  LET hits == SelectSeq(st, LAMBDA d : d.category \in {Undefined, ""})
  IN  SubSeq(hits, IF Len(hits) < SweepLimit THEN 1 ELSE Len(hits) - SweepLimit + 1, Len(hits))

\* Email.find({ category missing, null or '' }).limit(100)
Uncategorized(st) ==
  LET hits == SelectSeq(st, LAMBDA d : d.category \in {Undefined, ""})
  IN  SubSeq(hits, 1, IF Len(hits) < SweepLimit THEN Len(hits) ELSE SweepLimit)

\* The loop starts on the first email of the batch, or responds when there is none.
Loop(s) == [s EXCEPT !.pc = IF s.batch = <<>> THEN "respond" ELSE "categorize"]

\* The loop is done with the current email.
NextEmail(s) == Loop([s EXCEPT !.batch = Tail(@)])

\* A request for a sweep, the n-th at most: the query and the start of the loop.
SweepRequest(n) ==
  /\ sweep.pc = "idle"
  /\ sweeps < n
  /\ sweeps' = sweeps + 1
  /\ LET uncategorizedEmails == Uncategorized(store)
     IN  sweep' = Loop([IdleSweep EXCEPT !.batch = uncategorizedEmails,
                                         !.total = Len(uncategorizedEmails)])
  /\ UNCHANGED <<uniqueIndex, env, store, index, runs, slackCalls, webhookCalls, emitted, heur, conn, gw, fetched>>

\* categorizeEmail for the current email: with a category, issue its save; else count a failure.
SweepCategorize ==
  /\ sweep.pc = "categorize"
  /\ \E outcome \in IF CallsClassifier(env) THEN Outcomes ELSE {NoOutcome} :
       LET category == categorizeEmail(Head(sweep.batch), env, outcome)
       IN  sweep' = IF category # Undefined
                      THEN [sweep EXCEPT !.batch[1].category = category, !.pc = "save"]
                      ELSE NextEmail([sweep EXCEPT !.failed = @ + 1])
  /\ UNCHANGED <<uniqueIndex, env, store, index, runs, sweeps, slackCalls, webhookCalls,
                 emitted, heur, conn, gw, fetched>>

\* email.save() of the sweep takes effect, or fails (counted as failed).
SweepSave ==
  /\ sweep.pc = "save"
  /\ \/ /\ store' = save(store, Head(sweep.batch), {"category"})
        /\ sweep' = [sweep EXCEPT !.pc = "index"]
     \/ /\ sweep' = NextEmail([sweep EXCEPT !.failed = @ + 1])
        /\ UNCHANGED store
  /\ UNCHANGED <<uniqueIndex, env, index, runs, sweeps, slackCalls, webhookCalls, emitted, heur, conn, gw, fetched>>

\* A variant of the loop that counts an email whose index write failed as failed.
SweepIndexCountsWritten ==
  /\ sweep.pc = "index"
  /\ \/ /\ index' = indexWrite(index, IndexDocument(Head(sweep.batch)))
        /\ sweep' = NextEmail([sweep EXCEPT !.categorized = @ + 1])
     \/ /\ UNCHANGED index
        /\ sweep' = NextEmail([sweep EXCEPT !.failed = @ + 1])
  /\ UNCHANGED <<uniqueIndex, env, store, runs, sweeps, slackCalls, webhookCalls, emitted, heur, conn, gw, fetched>>

\* indexEmail of the sweep: written, or the index call fails (logged); counted as categorized.
SweepIndex ==
  /\ sweep.pc = "index"
  /\ \/ index' = indexWrite(index, IndexDocument(Head(sweep.batch)))
     \/ UNCHANGED index
  /\ sweep' = NextEmail([sweep EXCEPT !.categorized = @ + 1])
  /\ UNCHANGED <<uniqueIndex, env, store, runs, sweeps, slackCalls, webhookCalls, emitted, heur, conn, gw, fetched>>

\* res.json({ total, categorized, failed })
SweepRespond ==
  /\ sweep.pc = "respond"
  /\ sweep' = [IdleSweep EXCEPT !.result = [total |-> sweep.total,
                  categorized |-> sweep.categorized, failed |-> sweep.failed]]
  /\ UNCHANGED <<uniqueIndex, env, store, index, runs, sweeps, slackCalls, webhookCalls,
                 emitted, heur, conn, gw, fetched>>

(***************************************************************************)
(* Specifications.                                                         *)
(***************************************************************************)
RunStep(r) ==
  \/ FindOne(r)
  \/ SaveExisting(r)
  \/ Create(r)
  \/ Classify(r)
  \/ Resolve(r)
  \/ SaveCategory(r)
  \/ SaveFallback(r)
  \/ Reload(r)
  \/ Index(r)
  \/ Notify(r)

SweepStep ==
  \/ SweepCategorize
  \/ SweepSave
  \/ SweepIndex
  \/ SweepRespond

\* Handlers and sweeps overlap freely: every await is a point where another may run.
Next ==
  \/ \E r \in Runs, m \in Messages : StartRun(r, m)
  \/ \E r \in Runs : RunStep(r)
  \/ SweepRequest(MaxSweeps)
  \/ SweepStep

Spec == Init /\ [][Next]_vars

\* No handler and no sweep is in progress.
Quiescent == (\A r \in Runs : runs[r].pc \in {"idle", "done"}) /\ sweep.pc = "idle"

\* Messages are processed one after the other: a handler or a sweep starts only when
\* nothing else is in progress.
NextSeq ==
  \/ \E r \in Runs, m \in Messages : Quiescent /\ StartRun(r, m)
  \/ \E r \in Runs : RunStep(r)
  \/ Quiescent /\ SweepRequest(MaxSweeps)
  \/ SweepStep

SpecSeq == Init /\ [][NextSeq]_vars

\* Handlers and a sweep overlap while the index service and the store are healthy: every
\* index write and every save of a category takes effect.
NextHealthy ==
  \/ \E r \in Runs, m \in Messages : StartRun(r, m)
  \/ \E r \in Runs :
       \/ FindOne(r)
       \/ SaveExisting(r)
       \/ Create(r)
       \/ Classify(r)
       \/ Resolve(r)
       \/ SaveCategory(r) /\ runs'[r].pc = "reload"
       \/ Reload(r)
       \/ Index(r) /\ index' = indexWrite(index, IndexDocument(runs[r].email))
       \/ Notify(r)
  \/ SweepRequest(MaxSweeps)
  \/ SweepCategorize
  \/ SweepSave /\ sweep'.pc = "index"
  \/ SweepIndex /\ index' = indexWrite(index, IndexDocument(Head(sweep.batch)))
  \/ SweepRespond

SpecHealthy == Init /\ [][NextHealthy]_vars

\* A session that delivers a message without Message-ID more than once, one handler
\* at a time.
NextSynth ==
  \/ \E r \in Runs, m \in Unidentified : Quiescent /\ StartRun(r, m)
  \/ \E r \in Runs : RunStep(r)

SpecSynth == Init /\ [][NextSynth]_vars

(***************************************************************************)
(* Repeated sweeps over a backlog: SweepLimit + 1 uncategorized records,   *)
(* the classifier not configured, so that categorizeEmail decides by its   *)
(* keyword list alone.  Records with the text of Dull have no marker;      *)
(* those with the text of Lively have one.                                 *)
(***************************************************************************)
\* Sweeps requested one after the other.
MaxBacklogSweeps == 3

\* SweepLimit records without a marker before one with a marker; and one fewer of them
\* before two with a marker.
Backlogs ==
  LET Dull(i) ==
        StoredEmail(i, <<"demo@acme.com", i, i>>, "demo@acme.com", "unknown",
                    "Re: Budget approved - let's proceed", "Looping in procurement.", i,
                    Undefined)
      Lively(i) ==
        StoredEmail(i, <<"demo@acme.com", i, i>>, "demo@acme.com", "amelia@helixlabs.ai",
                    "Pricing?", "Please unsubscribe me.", i, Undefined)
  IN  { [i \in 1..(SweepLimit + 1) |-> IF i <= SweepLimit THEN Dull(i) ELSE Lively(i)],
        [i \in 1..(SweepLimit + 1) |-> IF i < SweepLimit THEN Dull(i) ELSE Lively(i)] }

BacklogInit ==
  /\ uniqueIndex = TRUE /\ env = [dummy |-> FALSE, apiKey |-> FALSE, model |-> ""]
  /\ store \in Backlogs /\ index = IndexOf(store)
  /\ runs = [r \in Runs |-> IdleRun] /\ sweep = IdleSweep /\ sweeps = 0
  /\ slackCalls = EmptyBag /\ webhookCalls = EmptyBag /\ emitted = EmptyBag
  /\ heur = HeurIdle /\ conn = NoConnectors /\ gw = NoGateway /\ fetched = NoFetch

NextBacklog ==
  \/ SweepRequest(MaxBacklogSweeps)
  \/ SweepCategorize
  \/ SweepSave
  \/ SweepIndex
  \/ SweepRespond

SpecBacklog == BacklogInit /\ [][NextBacklog]_vars
(***************************************************************************)
(* Categorization of one text: the category functions applied to an email  *)
(* drawn from a vocabulary of subjects and bodies, under every classifier  *)
(* configuration and outcome.                                              *)
(***************************************************************************)
Markers ==
  {"out of office", "ooo", "auto-reply", "automatic reply", "meeting", "schedule", "calendar",
   "appointment", "interested", "learn more", "pricing", "quote", "demo", "not interested",
   "decline", "unsubscribe", "promotion", "promo", "discount", "limited time", "free cash",
   "free", "money", "cash", "prize", "click here", "act now", "limited offer", "offer", "deal",
   "sale", "spam"}

HeurEmails ==
  LET HeurSubjects ==
        {"(No Subject)", "OOO", "Auto-Reply", "Win a free cruise today!!!",
         "Re: Budget approved - let's proceed", "Spam alert", "Calendar invite",
         "Not interested, thanks"}
      HeurBodies ==
        Markers \cup {"", "Looping in procurement.", "Congratulations! Click to claim.",
                      "please unsubscribe me", "We must decline", "I am zooming",
                      "Please share a quote.", "Big Sale", "An ideal fit", "Hello"}
      HeurHtmls == {"", "<p>schedule</p>"}
  IN  {[subject |-> s, body |-> b, html |-> h] :
         s \in HeurSubjects, b \in HeurBodies, h \in HeurHtmls}

HeurEnvironments ==
  { [dummy |-> TRUE,  apiKey |-> FALSE, model |-> ""],
    [dummy |-> FALSE, apiKey |-> FALSE, model |-> ""],
    [dummy |-> FALSE, apiKey |-> TRUE,  model |-> "gpt-5"],
    [dummy |-> FALSE, apiKey |-> TRUE,  model |-> "GPT-4o"] }

HeurOutcomes ==
  {[kind |-> "reply", content |-> c] :
      c \in {"Interested", "SPAM", " interested\n", "Maybe", "Interested.", "out of office", ""}}
    \cup {[kind |-> "error", content |-> e] : e \in {"quota", "model_access", "other"}}

HeurInit ==
  /\ uniqueIndex = TRUE
  /\ env \in HeurEnvironments
  /\ store = <<>>
  /\ index = {}
  /\ runs = [r \in Runs |-> IdleRun]
  /\ sweep = IdleSweep
  /\ sweeps = 0
  /\ slackCalls = EmptyBag
  /\ webhookCalls = EmptyBag
  /\ emitted = EmptyBag
  /\ heur \in {[pc |-> "input", email |-> e] : e \in HeurEmails}
  /\ conn = NoConnectors /\ gw = NoGateway /\ fetched = NoFetch

\* The email is categorized: by categorizeEmail, by the pipeline's resolution
\* (categorizeEmail, then stage 4), by stage 4 alone and by the catch block's heuristics.
HeurApply ==
  /\ heur.pc = "input"
  /\ \E outcome \in IF CallsClassifier(env) THEN HeurOutcomes ELSE {NoOutcome} :
       heur' = [pc       |-> "done",
                email    |-> heur.email,
                outcome  |-> outcome,
                category |-> categorizeEmail(heur.email, env, outcome),
                resolved |-> resolveCategory(heur.email, env, outcome),
                stage4   |-> imapHeuristics(heur.email.subject, heur.email.body),
                catch    |-> imapErrorHeuristics(heur.email.subject, heur.email.body)]
  /\ UNCHANGED <<pipelineVars, conn, gw, fetched>>

NextHeur == HeurApply

SpecHeur == HeurInit /\ [][NextHeur]_vars

(***************************************************************************)
(* The connector's steps.  Each is one callback of the program, run when   *)
(* the IMAP library reports the event named; what the library reports     *)
(* (success, error, how many results, whether 'end' follows) is the        *)
(* environment's choice.                                                   *)
(***************************************************************************)
connVars == <<pipelineVars, heur, gw, fetched>>

\* The process has started and startImapSync is about to run; the store is empty.
ConnInit ==
  /\ PipelineInit /\ uniqueIndex /\ env.apiKey
  /\ heur = HeurIdle
  /\ conn = NoConnectors /\ gw = NoGateway /\ fetched = NoFetch

\* startImapSync: connectAndSync for the next account of the list.
StartSync(i) ==
  /\ conn[AccountList[i]].phase = "off"
  /\ \A j \in 1..(i - 1) : conn[AccountList[j]].phase # "off"
  /\ conn' = connectAndSync(conn, AccountList[i])
  /\ UNCHANGED connVars

\* 'ready': imap.openBox is issued.
Ready(a) ==
  /\ conn[a].phase = "connecting"
  /\ conn' = [conn EXCEPT ![a].phase = "openBox"]
  /\ UNCHANGED connVars

\* openBox answers: an error is logged and the callback returns; else the backfill
\* search is issued.
OpenBox(a) ==
  /\ conn[a].phase = "openBox"
  /\ \/ conn' = [conn EXCEPT ![a].phase = "up"]
     \/ conn' = [conn EXCEPT ![a].phase = "search"]
  /\ UNCHANGED connVars

\* fetchAndProcessEmails(imap, results, account, callback): a fetch stream of n messages.
fetchAndProcessEmails(c, n, callback) ==
  [c EXCEPT !.fetches = Append(@, [left |-> n, callback |-> callback])]

\* The backfill search answers: an error is logged and the callback returns; with no
\* result idle mode starts; else the results are fetched, idle mode starting at the
\* fetch's 'end'.
Search(a) ==
  /\ conn[a].phase = "search"
  /\ \/ conn' = [conn EXCEPT ![a].phase = "up"]
     \/ \E n \in 0..(MaxMessages - conn[a].emitted) :
          conn' = [conn EXCEPT ![a] =
                     IF n = 0 THEN startIdleMode(@)
                     ELSE fetchAndProcessEmails([@ EXCEPT !.phase = "backfill"], n, TRUE)]
  /\ UNCHANGED connVars

\* 'message' and 'body' of the next message of fetch f: its async handler starts and
\* runs to its first await.
FetchMessage(a, f) ==
  /\ f \in DOMAIN conn[a].fetches
  /\ conn[a].fetches[f].left > 0
  /\ conn' = [conn EXCEPT ![a].fetches[f].left = @ - 1,
                          ![a].emitted = @ + 1,
                          ![a].inflight = @ \cup {conn[a].emitted + 1}]
  /\ UNCHANGED connVars

RemoveAt(s, f) == SubSeq(s, 1, f - 1) \o SubSeq(s, f + 1, Len(s))

\* The stream of fetch f is over: its callback, if any, starts idle mode.
fetchEnded(c, f) ==
  LET rest == [c EXCEPT !.fetches = RemoveAt(@, f)]
  IN  IF c.fetches[f].callback THEN startIdleMode(rest) ELSE rest

\* 'end' of fetch f, after its last message.
FetchEnd(a, f) ==
  /\ f \in DOMAIN conn[a].fetches
  /\ conn[a].fetches[f].left = 0
  /\ conn' = [conn EXCEPT ![a] = fetchEnded(@, f)]
  /\ UNCHANGED connVars

\* 'error' of fetch f: logged.  The stream then ends ('end' is emitted) or is never
\* heard of again.
FetchError(a, f) ==
  /\ f \in DOMAIN conn[a].fetches
  /\ \/ conn' = [conn EXCEPT ![a] = fetchEnded(@, f)]
     \/ conn' = [conn EXCEPT ![a] =
                   [@ EXCEPT !.fetches = RemoveAt(@, f),
                             !.phase = IF conn[a].fetches[f].callback THEN "up" ELSE @]]
  /\ UNCHANGED connVars

\* 'mail', emitted once INBOX is open: every registered listener issues a search for
\* UNSEEN messages; with no listener registered the event has no effect.
Mail(a) ==
  /\ conn[a].phase \in {"search", "backfill", "up"}
  /\ conn[a].mails < MaxMail
  /\ conn' = [conn EXCEPT ![a].mails = @ + 1, ![a].searches = @ + conn[a].mailListeners]
  /\ UNCHANGED connVars

\* A search for UNSEEN answers: an error is logged; results are fetched, with no callback.
UnseenSearch(a) ==
  /\ conn[a].searches > 0
  /\ \/ conn' = [conn EXCEPT ![a].searches = @ - 1]
     \/ \E n \in 0..(MaxMessages - conn[a].emitted) :
          conn' = [conn EXCEPT ![a] =
                     LET c == [@ EXCEPT !.searches = @ - 1]
                     IN  IF n > 0 THEN fetchAndProcessEmails(c, n, FALSE) ELSE c]
  /\ UNCHANGED connVars

\* The handler of message h persists its record and runs to its end.
HandlerPersists(a, h) ==
  /\ h \in conn[a].inflight
  /\ conn' = [conn EXCEPT ![a].inflight = @ \ {h}, ![a].log = Append(@, h)]
  /\ UNCHANGED connVars

\* The handler of message h throws before persisting: caught and logged by the handler.
HandlerFails(a, h) ==
  /\ h \in conn[a].inflight
  /\ conn' = [conn EXCEPT ![a].inflight = @ \ {h}]
  /\ UNCHANGED connVars

\* A variant in which the 'error' listener schedules a reconnect as well.
SessionErrorReconnects(a) ==
  /\ conn[a].phase \notin {"off", "closed"}
  /\ conn[a].errorListener
  /\ \/ conn' = [conn EXCEPT ![a] = Closed([@ EXCEPT !.errorListener = FALSE, !.timers = @ + 1])]
     \/ conn' = [conn EXCEPT ![a] = [@ EXCEPT !.errorListener = FALSE, !.timers = @ + 1]]
  /\ UNCHANGED connVars

\* 'error' of the session (connect failure, socket error, ...): the one-shot listener
\* logs it.  The socket then closes without 'end', or the session goes on.
SessionError(a) ==
  /\ conn[a].phase \notin {"off", "closed"}
  /\ conn[a].errorListener
  /\ \/ conn' = [conn EXCEPT ![a] = Closed([@ EXCEPT !.errorListener = FALSE])]
     \/ conn' = [conn EXCEPT ![a].errorListener = FALSE]
  /\ UNCHANGED connVars

\* 'end' of the session: the one-shot listener schedules connectAndSync in 5 s.
SessionEnd(a) ==
  /\ conn[a].phase \notin {"off", "closed"}
  /\ conn[a].endListener
  /\ conn' = [conn EXCEPT ![a] = Closed([@ EXCEPT !.endListener = FALSE, !.timers = @ + 1])]
  /\ UNCHANGED connVars

\* The 5 s timer fires: connectAndSync(config).
Reconnect(a) ==
  /\ conn[a].timers > 0
  /\ conn[a].sessions < MaxSessions
  /\ conn' = connectAndSync([conn EXCEPT ![a].timers = @ - 1], a)
  /\ UNCHANGED connVars

ConnStep(a) ==
  \/ Ready(a) \/ OpenBox(a) \/ Search(a)
  \/ \E f \in 1..MaxMessages : FetchMessage(a, f) \/ FetchEnd(a, f) \/ FetchError(a, f)
  \/ Mail(a) \/ UnseenSearch(a)
  \/ \E h \in 1..MaxMessages : HandlerPersists(a, h) \/ HandlerFails(a, h)
  \/ SessionError(a) \/ SessionEnd(a) \/ Reconnect(a)

NextConn ==
  \/ \E i \in 1..Len(AccountList) : StartSync(i)
  \/ \E a \in Accounts : ConnStep(a)

SpecConn == ConnInit /\ [][NextConn]_vars

(***************************************************************************)
(* Search Gateway: checkElasticsearchConnection and searchEmails.  A call  *)
(* is suspended at each await; the index service goes down and comes back, *)
(* the index can be deleted, and time passes between the steps.            *)
(***************************************************************************)
gatewayFrame == <<uniqueIndex, env, store, runs, sweep, sweeps, slackCalls, webhookCalls,
                  emitted, heur, conn, fetched>>

\* Configurations of a deployment that serves searches.
SearchEnvironments ==
  { [dummy |-> FALSE, apiKey |-> TRUE, model |-> ""],
    [dummy |-> TRUE,  apiKey |-> FALSE, model |-> ""] }

\* checkElasticsearchConnection has returned v to call c.
Checked(g, c, v) ==
  [g EXCEPT !.calls[c].pc = "checked", !.calls[c].isAvailable = v, !.calls[c].now = 0]

\* A variant that answers from the cache whatever the last result was.
checkElasticsearchConnectionCachesAll(g, c, dummy) ==
  IF dummy THEN Checked(g, c, FALSE)
  ELSE IF g.now - g.lastConnectionCheck < CONNECTION_CHECK_INTERVAL /\ g.lastConnectionCheck > 0
    THEN Checked(g, c, g.elasticsearchAvailable)
  ELSE [g EXCEPT !.calls[c].pc = "ping", !.calls[c].now = g.now]

\* checkElasticsearchConnection up to its await: the cached answer, or a ping is issued.
checkElasticsearchConnection(g, c, dummy) ==
  IF dummy THEN Checked(g, c, FALSE)
  ELSE IF g.elasticsearchAvailable
          /\ g.now - g.lastConnectionCheck < CONNECTION_CHECK_INTERVAL
    THEN [Checked(g, c, TRUE) EXCEPT !.calls[c].path = "cached"]
  ELSE [g EXCEPT !.calls[c].pc = "ping", !.calls[c].now = g.now]

\* The race of client.ping() and the timeout is settled for call c.
pingSettled(g, c, ok) ==
  IF ok
    THEN [Checked(g, c, TRUE) EXCEPT !.elasticsearchAvailable = TRUE,
                                     !.lastConnectionCheck = g.calls[c].now,
                                     !.lastPing = [ok |-> TRUE, at |-> g.calls[c].now, done |-> g.now]]
    ELSE [Checked(g, c, FALSE) EXCEPT !.elasticsearchAvailable = FALSE,
                                      !.lastConnectionCheck = g.now,
                                      !.lastPing = [ok |-> FALSE, at |-> 0, done |-> 0]]

\* Slot c is free and the slots before it are taken.
FreeSlot(c) ==
  /\ gw.calls[c].pc = "idle"
  /\ \A d \in Calls : d < c => gw.calls[d].pc # "idle"

\* A caller invokes checkElasticsearchConnection.
CheckStart(c) ==
  /\ FreeSlot(c)
  /\ gw' = checkElasticsearchConnection([gw EXCEPT !.calls[c].kind = "check"], c, env.dummy)
  /\ UNCHANGED <<gatewayFrame, index>>

\* The ping answers while the service is up, fails while it is down, or times out.
PingDone(c) ==
  /\ gw.calls[c].pc = "ping"
  /\ \/ gw.es = "up" /\ gw' = pingSettled(gw, c, TRUE)
     \/ gw.es = "down" /\ gw' = pingSettled(gw, c, FALSE)
     \/ gw.now - gw.calls[c].now >= PingTimeout /\ gw' = pingSettled(gw, c, FALSE)
  /\ UNCHANGED <<gatewayFrame, index>>

CheckReturn(c) ==
  /\ gw.calls[c].pc = "checked" /\ gw.calls[c].kind = "check"
  /\ gw' = [gw EXCEPT !.calls[c] = IdleCall]
  /\ UNCHANGED <<gatewayFrame, index>>

\* Time passes, by 1 s or by 29 s (ms), in amounts shorter than the ping timeout while a
\* ping is in flight; the timeout of a ping in flight fires when it is due.
Tick ==
  /\ \E d \in {1000, 29000} :
       /\ gw.now + d <= MaxNow
       /\ d < PingTimeout => \E c \in Calls : gw.calls[c].pc = "ping"
       /\ \A c \in Calls : gw.calls[c].pc = "ping" => gw.now + d - gw.calls[c].now <= PingTimeout
       /\ gw' = [gw EXCEPT !.now = @ + d]
  /\ UNCHANGED <<gatewayFrame, index>>

EsDown ==
  /\ gw.es = "up"
  /\ gw' = [gw EXCEPT !.es = "down"]
  /\ UNCHANGED <<gatewayFrame, index>>

EsUp ==
  /\ gw.es = "down"
  /\ gw' = [gw EXCEPT !.es = "up"]
  /\ UNCHANGED <<gatewayFrame, index>>

\* The 'emails' index is deleted with its documents.
IndexDrop ==
  /\ gw.es = "up" /\ gw.indexExists
  /\ gw' = [gw EXCEPT !.indexExists = FALSE]
  /\ index' = {}
  /\ UNCHANGED gatewayFrame

\* searchEmails has returned result to call c.
Returned(g, c, path, result) ==
  [g EXCEPT !.calls[c].pc = "done", !.calls[c].path = path, !.calls[c].result = result]

\* searchEmails(query, filters) up to its first await.
SearchStart(c) ==
  /\ FreeSlot(c)
  /\ \E query \in Queries, filters \in Filters :
       LET g == [gw EXCEPT !.calls[c] = [IdleCall EXCEPT !.kind = "search",
                                           !.query = query, !.filters = filters]]
       IN  gw' = IF env.dummy THEN Returned(g, c, "dummy", <<>>)
                 ELSE checkElasticsearchConnection(g, c, env.dummy)
  /\ UNCHANGED <<gatewayFrame, index>>

\* if (!isAvailable): the fallback, else on to ensureIndexExists.
Available(c) ==
  /\ gw.calls[c].pc = "checked" /\ gw.calls[c].kind = "search"
  /\ gw' = [gw EXCEPT !.calls[c].pc = IF gw.calls[c].isAvailable THEN "ensure" ELSE "fallback"]
  /\ UNCHANGED <<gatewayFrame, index>>

\* ensureIndexExists: true (the index exists or was created), or false on an error.
ensureIndexExists(g, c, whenTrue, whenFalse) ==
  IF g.es = "up" THEN [g EXCEPT !.indexExists = TRUE, !.calls[c].pc = whenTrue]
  ELSE [g EXCEPT !.calls[c].pc = whenFalse]

EnsureIndex(c) ==
  /\ gw.calls[c].pc = "ensure"
  /\ gw' = ensureIndexExists(gw, c, "search", "fallback")
  /\ UNCHANGED <<gatewayFrame, index>>

\* A variant of the catch of searchEmails that rethrows an error that is not index-not-found.
searchFailedRethrows(g, c) ==
  IF g.es = "up" THEN [g EXCEPT !.calls[c].pc = "recreate", !.calls[c].notFound = TRUE]
  ELSE Returned(g, c, "raised", <<>>)

\* client.search threw: index-not-found (kept in notFound) leads to ensureIndexExists,
\* then the fallback; any other error leads to the fallback at once.
searchFailed(g, c) ==
  IF g.es = "up" THEN [g EXCEPT !.calls[c].pc = "recreate", !.calls[c].notFound = TRUE]
  ELSE [g EXCEPT !.calls[c].pc = "fallback"]

\* client.search: the hits, or an error (service down, index not found).
IndexSearch(c) ==
  /\ gw.calls[c].pc = "search"
  /\ gw' = IF gw.es = "up" /\ gw.indexExists
             THEN Returned(gw, c, "index",
                           indexSearch(index, gw.calls[c].query, gw.calls[c].filters))
             ELSE searchFailed(gw, c)
  /\ UNCHANGED <<gatewayFrame, index>>

\* A variant of the catch of searchEmails that searches again once the index is back.
RecreateSearchesAgain(c) ==
  /\ gw.calls[c].pc = "recreate"
  /\ gw' = ensureIndexExists([gw EXCEPT !.calls[c].ensured = @ + 1], c, "search", "fallback")
  /\ UNCHANGED <<gatewayFrame, index>>

\* The catch of searchEmails on index-not-found: ensureIndexExists (its calls from the
\* catch are counted in ensured), then the fallback whatever it returned.
Recreate(c) ==
  /\ gw.calls[c].pc = "recreate"
  /\ gw' = ensureIndexExists([gw EXCEPT !.calls[c].ensured = @ + 1], c, "fallback", "fallback")
  /\ UNCHANGED <<gatewayFrame, index>>

\* A variant of searchEmailsMongoDB without its catch: a failing scan raises.
FallbackRaises(c) ==
  /\ gw.calls[c].pc = "fallback"
  /\ \/ gw' = Returned(gw, c, "store",
                       storeSearch(store, gw.calls[c].query, gw.calls[c].filters))
     \/ gw' = Returned(gw, c, "raised", <<>>)
  /\ UNCHANGED <<gatewayFrame, index>>

\* searchEmailsMongoDB: the store scan, or [] when the store fails.
Fallback(c) ==
  /\ gw.calls[c].pc = "fallback"
  /\ \/ gw' = Returned(gw, c, "store",
                       storeSearch(store, gw.calls[c].query, gw.calls[c].filters))
     \/ gw' = Returned(gw, c, "store_error", <<>>)
  /\ UNCHANGED <<gatewayFrame, index>>

SearchReturn(c) ==
  /\ gw.calls[c].pc = "done"
  /\ gw' = [gw EXCEPT !.calls[c] = IdleCall]
  /\ UNCHANGED <<gatewayFrame, index>>

\* Overlapping health checks.
HealthInit ==
  /\ PipelineInit /\ uniqueIndex /\ env \in SearchEnvironments
  /\ heur = HeurIdle /\ conn = NoConnectors /\ gw = NoGateway /\ fetched = NoFetch

NextHealth ==
  \/ \E c \in Calls : CheckStart(c) \/ PingDone(c) \/ CheckReturn(c)
  \/ Tick
  \/ EsDown
  \/ EsUp

SpecHealth == HealthInit /\ [][NextHealth]_vars

\* One search at a time over a store whose records are all indexed.
SearchInit ==
  /\ uniqueIndex = TRUE /\ env \in SearchEnvironments
  /\ store = SmallCorpus /\ index = IndexOf(store)
  /\ runs = [r \in Runs |-> IdleRun] /\ sweep = IdleSweep /\ sweeps = 0
  /\ slackCalls = EmptyBag /\ webhookCalls = EmptyBag /\ emitted = EmptyBag
  /\ heur = HeurIdle /\ conn = NoConnectors /\ gw = NoGateway /\ fetched = NoFetch

NextSearch ==
  \/ SearchStart(1)
  \/ PingDone(1)
  \/ Available(1)
  \/ EnsureIndex(1)
  \/ IndexSearch(1)
  \/ Recreate(1)
  \/ Fallback(1)
  \/ SearchReturn(1)
  \/ Tick
  \/ EsDown
  \/ EsUp
  \/ IndexDrop

SpecSearch == SearchInit /\ [][NextSearch]_vars

\* The two search paths as functions of the corpus, the query and the filters: a call
\* that is about to run client.search, or about to run the store scan.
QueryInit ==
  /\ uniqueIndex = TRUE /\ env = [dummy |-> FALSE, apiKey |-> TRUE, model |-> ""]
  /\ store \in Corpora /\ index = IndexOf(store)
  /\ runs = [r \in Runs |-> IdleRun] /\ sweep = IdleSweep /\ sweeps = 0
  /\ slackCalls = EmptyBag /\ webhookCalls = EmptyBag /\ emitted = EmptyBag
  /\ heur = HeurIdle /\ conn = NoConnectors /\ fetched = NoFetch
  /\ \E query \in Queries, filters \in Filters, pc \in {"search", "fallback"} :
       gw = [NoGateway EXCEPT
               !.es = IF pc = "search" THEN "up" ELSE "down",
               !.elasticsearchAvailable = (pc = "search"),
               !.lastPing = [ok |-> (pc = "search"), at |-> 0, done |-> 0],
               !.calls[1] = [IdleCall EXCEPT !.kind = "search", !.pc = pc,
                                             !.query = query, !.filters = filters]]

NextQuery ==
  \/ IndexSearch(1)
  \/ Fallback(1)

SpecQuery == QueryInit /\ [][NextQuery]_vars

(***************************************************************************)
(* The events of one fetch.  For every message the fetch emits, the        *)
(* 'message' callback creates its own gmLabels and registers the           *)
(* 'attributes' and 'body' listeners; the body handler awaits simpleParser *)
(* and reads gmLabels when the parse has finished.  The library delivers   *)
(* the two events of a message in either order, and the attributes of a    *)
(* message can arrive before or after its parse has finished.              *)
(***************************************************************************)
\* Messages of one fetch.
MaxFetched == 2

\* Labels in one x-gm-labels attribute.
MaxLabels == 2

Fetched == 1..MaxFetched

\* attrs['x-gm-labels']: missing, one string, or an array of strings.
RawLabels ==
  LET LabelNames == {"\\Junk", "Interested", "Not Interested", "CATEGORY_PROMOTIONS"}
      LabelLists == UNION {[1..n -> LabelNames] : n \in 0..MaxLabels}
  IN  {[kind |-> "undefined", value |-> <<>>]}
        \cup {[kind |-> "string", value |-> <<l>>] : l \in {"", "\\Junk", "Not Interested"}}
        \cup {[kind |-> "array", value |-> ls] : ls \in LabelLists}

\* let gmLabels = undefined
NoLabels == [defined |-> FALSE, list |-> <<>>]

\* The 'attributes' listener: a falsy raw value leaves gmLabels as it is.
attributes(gmLabels, raw) ==
  IF raw.kind = "undefined" \/ (raw.kind = "string" /\ raw.value[1] = "")
  THEN gmLabels
  ELSE [defined |-> TRUE, list |-> raw.value]

\* const labelCategory = mapGmailLabelsToCategory(gmLabels): no labels is no hint.
labelCategoryOf(gmLabels) ==
  IF ~gmLabels.defined THEN Undefined ELSE mapGmailLabelsToCategory(gmLabels.list)

NewMessage(raw) ==
  [raw |-> raw, gmLabels |-> NoLabels, attributes |-> FALSE, body |-> "none",
   read |-> NoLabels, labelCategory |-> Undefined]

FetchInit ==
  /\ uniqueIndex = TRUE /\ env = [dummy |-> FALSE, apiKey |-> TRUE, model |-> ""]
  /\ store = <<>> /\ index = {}
  /\ runs = [r \in Runs |-> IdleRun] /\ sweep = IdleSweep /\ sweeps = 0
  /\ slackCalls = EmptyBag /\ webhookCalls = EmptyBag /\ emitted = EmptyBag
  /\ heur = HeurIdle /\ conn = NoConnectors /\ gw = NoGateway
  /\ fetched \in [Fetched -> {NewMessage(raw) : raw \in RawLabels}]

fetchFrame == <<pipelineVars, heur, conn, gw>>

\* msg.on('attributes')
AttributesEvent(m) ==
  /\ ~fetched[m].attributes
  /\ fetched' = [fetched EXCEPT ![m].attributes = TRUE,
                                ![m].gmLabels = attributes(@, fetched[m].raw)]
  /\ UNCHANGED fetchFrame

\* msg.on('body'): the handler starts and awaits simpleParser(stream).
BodyEvent(m) ==
  /\ fetched[m].body = "none"
  /\ fetched' = [fetched EXCEPT ![m].body = "parsing"]
  /\ UNCHANGED fetchFrame

\* simpleParser has resolved: the handler goes on, reads gmLabels (kept in read) and
\* computes the label hint.
Parsed(m) ==
  /\ fetched[m].body = "parsing"
  /\ fetched' = [fetched EXCEPT ![m].body = "parsed",
                                ![m].read = fetched[m].gmLabels,
                                ![m].labelCategory = labelCategoryOf(fetched[m].gmLabels)]
  /\ UNCHANGED fetchFrame

NextFetch ==
  \E m \in Fetched :
    \/ AttributesEvent(m)
    \/ BodyEvent(m)
    \/ Parsed(m)

SpecFetch == FetchInit /\ [][NextFetch]_vars

(***************************************************************************)
(* Properties.                                                             *)
(***************************************************************************)
\* The handler in slot r has persisted its message (its create or merge save took effect).
Persisted(r) ==
  \/ runs[r].pc \in {"categorize", "resolve", "saveCategory", "saveFallback", "reload",
                     "index", "notify"}
  \/ runs[r].pc = "done" /\ runs[r].status \in {"processed", "notify_error"}

\* Slot r holds the handler started last.
Latest(r) == runs[r].pc # "idle" /\ \A q \in Runs : q > r => runs[q].pc = "idle"

RecordsOf(messageId) == {d \in DOMAIN store : store[d].messageId = messageId}

\* Number of times the record with _id d was handed to sendSlackNotification.
SlackCount(d) == CopiesIn([id |-> d, category |-> "Interested"], slackCalls)

\* C1 (idempotent upsert): when messages are processed one after the other, once the
\* handler started last has persisted its message the store holds exactly one record
\* with that message's externalId and its non-category fields are those of that
\* message; and no step changes a category that is already set.
C1_FieldsOfLatest ==
  \A r \in Runs :
    (Latest(r) /\ Persisted(r)) =>
      LET raw == Mailbox[runs[r].msg]
          n   == Normalized(raw, 0)
          ds  == RecordsOf(MessageIdOf(raw, 0))
      IN  /\ Cardinality(ds) = 1
          /\ \A d \in ds : \A p \in DOMAIN n : store[d][p] = n[p]

C1_CategoryKept ==
  \A d \in DOMAIN store :
    Truthy(store[d].category) => d \in DOMAIN store' /\ store'[d].category = store[d].category

C1_IdempotentUpsert == [](C1_FieldsOfLatest) /\ [][C1_CategoryKept]_vars

\* C1 witness: message 1 then message 2 (same externalId, another body and a Spam label)
\* were processed; one record, with the second body and the first category.
C1_Witness ==
  /\ runs[1].msg = 1 /\ runs[1].status = "processed"
  /\ runs[2].msg = 2 /\ runs[2].status = "processed"
  /\ Len(store) = 1
  /\ store[1].body = Mailbox[2].text /\ store[1].body # Mailbox[1].text
  /\ store[1].category = "Interested"

\* C2 (atomic upsert), as claimed: under every interleaving the store never holds two
\* records with one externalId and no ingestion of an externalId already stored is
\* rejected as a duplicate insert instead of updating the record.
C2_AtomicUpsert ==
  /\ \A d, e \in DOMAIN store : store[d].messageId = store[e].messageId => d = e
  /\ \A r \in Runs : runs[r].status # "duplicate_key"

\* C3 (category precedence): a handler whose lookup finds the record already categorized
\* keeps that category on its document whatever its label hint, and no step of that
\* handler changes a stored category.
C3_LookupKeepsCategory(r) ==
  (runs[r].pc = "findOne" /\ runs'[r].pc = "save") =>
    LET found == findOne(store, MessageIdOf(Mailbox[runs[r].msg], 0))
    IN  Truthy(found.category) =>
          /\ runs'[r].email.category = found.category
          /\ "category" \notin runs'[r].dirty

C3_NoCategoryWrite(r) ==
  (/\ runs[r].branch = "update"
   /\ runs[r].pc \in {"save", "index", "notify"}
   /\ Truthy(runs[r].email.category) /\ "category" \notin runs[r].dirty
   /\ runs'[r] # runs[r]) =>
    /\ \A d \in DOMAIN store : store'[d].category = store[d].category
    /\ runs'[r].pc \in {"index", "notify", "done"}
    /\ runs'[r].pc # "done" => runs'[r].email.category = runs[r].email.category

C3_CategoryPrecedence ==
  [][\A r \in Runs : C3_LookupKeepsCategory(r) /\ C3_NoCategoryWrite(r)]_vars

\* C3 witness: a handler with label hint Spam has saved its merge into a record that
\* was Interested and goes on to index it as Interested.
C3_Witness ==
  \E r \in Runs :
    /\ runs[r].pc = "index" /\ runs[r].branch = "update"
    /\ runs[r].labelCategory = "Spam"
    /\ runs[r].email.category = "Interested"
    /\ store[runs[r].email._id].category = "Interested"
    /\ store[runs[r].email._id].account = Mailbox[runs[r].msg].account

\* C4 (non-downgrade): a stored category that is one of the five stays one of the five
\* in every later state.
C4_NonDowngrade ==
  [][\A d \in DOMAIN store :
       store[d].category \in Categories =>
         d \in DOMAIN store' /\ store'[d].category \in Categories]_vars

\* C4 witness: a handler that loaded the record uncategorized has saved its merge, and
\* the stored record carries a category.
C4_Witness ==
  \E r \in Runs :
    /\ runs[r].pc \in {"categorize", "resolve"} /\ runs[r].branch = "update"
    /\ ~Truthy(runs[r].email.category)
    /\ store[runs[r].email._id].category \in Categories
    /\ store[runs[r].email._id].account = Mailbox[runs[r].msg].account

\* C5 (notification gating, negative half): every record handed to the notification
\* collaborators carries category Interested, and no step of a sweep invokes them.
C5_OnlyInterested ==
  \A e \in BagToSet(slackCalls) \cup BagToSet(webhookCalls) : e.category = "Interested"

C5_SweepIsSilent ==
  sweep' # sweep => slackCalls' = slackCalls /\ webhookCalls' = webhookCalls

C5_NotificationGating == [](C5_OnlyInterested) /\ [][C5_SweepIsSilent]_vars

\* C5 witness: a sweep has just changed a record from uncategorized to Spam; the
\* collaborators were invoked for an Interested record only.
C5_Witness ==
  /\ sweep.pc = "index"
  /\ Head(sweep.batch).category = "Spam"
  /\ store[Head(sweep.batch)._id].category = "Spam"
  /\ BagToSet(slackCalls) # {}

\* C6 (notification gating, positive half), as claimed: once no handler and no sweep is
\* in progress, every record stored as Interested has been handed to the notification
\* collaborators.
C6_InterestedIsNotified ==
  Quiescent => \A d \in DOMAIN store : store[d].category = "Interested" => SlackCount(d) >= 1

\* C7 (at-most-once notification), as claimed: no record is handed to the Interested
\* notification more than once.
C7_AtMostOnce == \A d \in DOMAIN store : SlackCount(d) <= 1

\* C8 (closed category set): every stored category is one of the five or absent; and
\* when the classifier's reply is none of the five names, the handler's category is the
\* one the stage-4 heuristics give for its subject and body.
Recognized(reply) ==
  \E c \in Categories : toLowerCase(Chars(c)) = toLowerCase(trim(Chars(reply)))

C8_ClosedSet ==
  /\ \A d \in DOMAIN store : store[d].category \in Categories \cup {Undefined}
  /\ \A x \in index : x.category \in Categories \cup {Undefined}

C8_FallsThrough ==
  \A r \in Runs :
    (/\ runs[r].pc = "resolve" /\ runs'[r].pc # "resolve"
     /\ runs[r].outcome.kind = "reply" /\ ~Recognized(runs[r].outcome.content)) =>
      /\ categorizeEmail(runs[r].email, env, runs[r].outcome) = Undefined
      /\ runs'[r].email.category =
           imapHeuristics(runs[r].email.subject, runs[r].email.body)

C8_ClosedCategorySet == [](C8_ClosedSet) /\ [][C8_FallsThrough]_vars

\* C8 witness: the classifier answered "Maybe" and the handler is saving the category
\* of the stage-4 heuristics.
C8_Witness ==
  \E r \in Runs :
    /\ runs[r].pc = "saveCategory"
    /\ runs[r].outcome = [kind |-> "reply", content |-> "Maybe"]
    /\ runs[r].email.category = "Interested"

\* The classifier gave no recognized answer: the category comes from keyword heuristics.
DecidedByHeuristics ==
  /\ heur.pc = "done" /\ ~env.dummy
  /\ ~(CallsClassifier(env) /\ heur.outcome.kind = "reply"
       /\ Recognized(heur.outcome.content))

\* C9 (heuristic priority), as claimed, in the case the claim singles out: a message
\* with a text body whose lower-cased subject+body contains an out-of-office marker and
\* a spam marker, categorized by keyword heuristics, resolves to Out of Office.
C9_HeuristicPriority ==
  LET text == LowerText(heur.email.subject, heur.email.body)
  IN  (/\ DecidedByHeuristics /\ heur.email.body # ""
       /\ \E m \in {"out of office", "ooo", "auto-reply"} : includes(text, m)
       /\ \E m \in {"free", "cash", "promo", "discount", "offer", "deal", "unsubscribe",
                    "spam"} : includes(text, m)) =>
        heur.resolved.category = "Out of Office"

\* C10 (classifier failure = skipping the classifier), as claimed: for a message with a
\* text body, with the classifier unavailable the resolved category is the one the
\* stage-4 heuristics alone produce on that text.
C10_FailureEqualsStage4 ==
  (/\ heur.pc = "done" /\ ~env.dummy /\ heur.email.body # ""
   /\ (~CallsClassifier(env) \/ heur.outcome.kind = "error")) =>
    heur.resolved.category = heur.stage4

\* C11 (classifier errors are never surfaced): whatever the chat-completion call does,
\* categorizeEmail hands the handler one of the five categories or none and the handler
\* goes on to save or index its persisted record; in the sweep the email is saved with
\* one of the five categories or counted as failed.
C11_HandlerGoesOn ==
  \A r \in Runs :
    (runs[r].pc = "resolve" /\ runs'[r].pc # "resolve") =>
      /\ categorizeEmail(runs[r].email, env, runs[r].outcome) \in Categories \cup {Undefined}
      /\ runs'[r].pc \in {"saveCategory", "index"}
      /\ runs'[r].email.category \in Categories \cup {Undefined}
      /\ runs[r].email._id \in DOMAIN store'

C11_SweepCounts ==
  (sweep.pc = "categorize" /\ sweep' # sweep) =>
    \/ /\ sweep'.pc = "save" /\ Head(sweep'.batch).category \in Categories
       /\ sweep'.failed = sweep.failed
    \/ sweep'.failed = sweep.failed + 1

C11_NeverSurfaced == [][C11_HandlerGoesOn /\ C11_SweepCounts]_vars

\* C11 witness: the chat-completion call failed and the handler is saving the category
\* categorizeEmail returned from its fallback.
C11_Witness ==
  \E r \in Runs :
    /\ runs[r].pc = "saveCategory" /\ runs[r].outcome.kind = "error"
    /\ runs[r].email.category = "Spam"
    /\ runs[r].email._id \in DOMAIN store

\* C12 (reconnect on every session end), as claimed: whenever an account's session is
\* over (it reported an error and closed, its connect failed, or it ended), exactly one
\* reconnect attempt is scheduled.
C12_ReconnectScheduled ==
  \A a \in Accounts : conn[a].phase = "closed" => conn[a].timers = 1

\* C13 (no permanent stall), as claimed: a connector's session is never up with no
\* command of the connect sequence pending and no new-mail handler registered.
C13_NoStall ==
  \A a \in Accounts : ~(conn[a].phase = "up" /\ conn[a].mailListeners = 0)

\* C14 (sequential processing within one account), as claimed: at most one message of
\* an account is being processed at a time, the connector is not in idle mode and has
\* no fetch in progress while a message is being processed, and records are persisted
\* in the order the messages were delivered.
C14_Sequential ==
  \A a \in Accounts :
    /\ Cardinality(conn[a].inflight) <= 1
    /\ conn[a].inflight # {} => conn[a].mailListeners = 0
    /\ \A i, j \in DOMAIN conn[a].log : i < j => conn[a].log[i] < conn[a].log[j]

EndsInCatch(r) ==
  /\ runs[r].pc # "done" /\ runs'[r].pc = "done"
  /\ runs'[r].status \in {"parse_error", "store_error", "duplicate_key", "notify_error"}

\* C16 (per-message error isolation): an exception in the handler of one message ends
\* that handler only; every other handler is left as it was and no handler is ever
\* ended from outside.
C16_ErrorIsolation ==
  /\ [][\A r \in Runs : EndsInCatch(r) => \A q \in Runs \ {r} : runs'[q] = runs[q]]_vars
  /\ [](\A r \in Runs : runs[r].status # "aborted")

\* C16 witness: the handler of the first message ended in its catch and the handler of
\* the second message processed its message to the end.
C16_Witness ==
  /\ runs[1].pc = "done" /\ runs[1].status = "store_error"
  /\ runs[2].pc = "done" /\ runs[2].status = "processed"
  /\ Len(store) = 1

\* A store write of the handler in slot r fails in this step.
WriteFails(r) ==
  \/ runs[r].pc \in {"create", "save"} /\ runs'[r].pc = "done"
  \/ /\ runs[r].pc \in {"saveCategory", "saveFallback"}
     /\ runs'[r] # runs[r] /\ runs'[r].pc # "reload"

\* C17 (persistence failure skips downstream steps), as claimed: a handler whose store
\* write fails ends there, with no index write, notification or realtime event.
C17_FailureSkipsDownstream ==
  [][\A r \in Runs : WriteFails(r) => runs'[r].pc = "done"]_vars

\* C18 (side-effect order), as claimed: the index is written with a category only when
\* the store holds that category for the record, and a record is handed to the
\* notification collaborators only when the store holds Interested for it.
C18_IndexAfterPersist ==
  /\ \A r \in Runs :
       (runs[r].pc = "index" /\ runs'[r].pc = "notify" /\ index' # index) =>
         store[runs[r].email._id].category = runs[r].email.category
  /\ (sweep.pc = "index" /\ index' # index) =>
       store[Head(sweep.batch)._id].category = Head(sweep.batch).category

C18_NotifyAfterPersist ==
  \A r \in Runs :
    (runs[r].pc = "notify" /\ slackCalls' # slackCalls) =>
      store[runs[r].email._id].category = "Interested"

C18_SideEffectOrder == [][C18_IndexAfterPersist /\ C18_NotifyAfterPersist]_vars

\* C19 (realtime event after every successful index write), as claimed: a handler that
\* ends with its record's document in the Search Index has emitted 'new-email' for it.
C19_EventAfterIndex ==
  [][\A r \in Runs :
       (/\ runs[r].pc = "notify" /\ runs'[r].pc = "done"
        /\ IndexDocument(runs[r].email) \in index) =>
         CopiesIn(Notice(runs[r].email), emitted') =
           CopiesIn(Notice(runs[r].email), emitted) + 1]_vars

\* C20 (notification failure is swallowed): a step in which a notification collaborator
\* fails changes neither the store nor the index nor any other handler.
C20_NotificationSwallowed ==
  [][\A r \in Runs :
       (runs[r].pc = "notify" /\ runs'[r].pc = "done" /\ runs'[r].status = "notify_error") =>
         /\ store' = store /\ index' = index
         /\ \A q \in Runs \ {r} : runs'[q] = runs[q]]_vars

\* C20 witness: a handler ended on a failed notification; its record is stored and
\* indexed as Interested, and the other handler processed its message afterwards.
C20_Witness ==
  /\ runs[1].pc = "done" /\ runs[1].status = "notify_error"
  /\ runs[2].pc = "done" /\ runs[2].status = "processed"
  /\ Len(store) = 1 /\ store[1].category = "Interested"
  /\ \E x \in index : x.id = store[1].messageId /\ x.category = "Interested"

\* Call c is about to learn of index trouble: a negative health check, a failing
\* ensureIndexExists, or a client.search that raises.
IndexTrouble(c) ==
  \/ gw.calls[c].pc = "checked" /\ gw.calls[c].kind = "search" /\ ~gw.calls[c].isAvailable
  \/ gw.calls[c].pc = "ensure" /\ gw.es = "down"
  \/ gw.calls[c].pc = "search" /\ (gw.es = "down" \/ ~gw.indexExists)

\* C21 (search never fails over index trouble): a searchEmails call that meets a negative
\* health check, a failing ensureIndexExists or a raising index search goes on to the
\* store fallback and returns what searchEmailsMongoDB returns; no call ever raises.
C21_FallsBack ==
  \A c \in Calls :
    /\ (IndexTrouble(c) /\ gw'.calls[c] # gw.calls[c]) =>
         gw'.calls[c].pc \in {"fallback", "recreate"}
    /\ (gw.calls[c].pc = "recreate" /\ gw'.calls[c] # gw.calls[c]) =>
         gw'.calls[c].pc = "fallback"
    /\ (gw.calls[c].pc = "fallback" /\ gw'.calls[c] # gw.calls[c]) =>
         /\ gw'.calls[c].pc = "done"
         /\ gw'.calls[c].result \in
              {storeSearch(store, gw.calls[c].query, gw.calls[c].filters), <<>>}

C21_SearchNeverFails ==
  /\ [][C21_FallsBack]_vars
  /\ [](\A c \in Calls : gw.calls[c].path # "raised")

\* C21 witness: the service went down while a positive health result was cached; the
\* call's client.search raised and the call returned the records of the store scan.
C21_Witness ==
  /\ gw.calls[1].pc = "done" /\ gw.calls[1].path = "store" /\ gw.calls[1].result # <<>>
  /\ gw.calls[1].isAvailable /\ gw.elasticsearchAvailable /\ gw.es = "down"
  /\ gw.calls[1].query = "unsub"

\* Call c enters checkElasticsearchConnection in this step, outside dummy mode.
CheckBegins(c) ==
  /\ ~env.dummy
  /\ gw.calls[c].pc = "idle" /\ gw'.calls[c].pc # "idle"

\* The call that begins in this step answers healthy without a ping / issues a ping.
AnswersCached(c) == gw'.calls[c].pc = "checked" /\ gw'.calls[c].isAvailable
IssuesPing(c) == gw'.calls[c].pc = "ping"

\* C22 (health-check caching), as claimed: a call made less than 30 s after a successful
\* ping answers healthy without a ping; after a failed or timed-out ping the next call
\* pings; a call made 30 s or more after the last successful ping pings.
C22_CachedSincePing ==
  [][\A c \in Calls : CheckBegins(c) =>
       /\ (gw.lastPing.ok /\ gw.now - gw.lastPing.done < CONNECTION_CHECK_INTERVAL)
            => AnswersCached(c)
       /\ ~gw.lastPing.ok => IssuesPing(c)
       /\ (gw.lastPing.ok /\ gw.now - gw.lastPing.done >= CONNECTION_CHECK_INTERVAL)
            => IssuesPing(c)]_vars

\* C22, amended: the 30 s count from the time the successful check read just before it
\* issued its ping (of the checks that overlap, the one whose ping completed last).
C22_CachedSinceCheck ==
  [][\A c \in Calls : CheckBegins(c) =>
       /\ (gw.lastPing.ok /\ gw.now - gw.lastPing.at < CONNECTION_CHECK_INTERVAL)
            => AnswersCached(c)
       /\ ~gw.lastPing.ok => IssuesPing(c)
       /\ (gw.lastPing.ok /\ gw.now - gw.lastPing.at >= CONNECTION_CHECK_INTERVAL)
            => IssuesPing(c)]_vars

\* C22 witness: 29 s after a successful check read the time, a call has been answered
\* from the cache.
C22_Witness ==
  \E c \in Calls :
    /\ gw.calls[c].pc = "checked" /\ gw.calls[c].path = "cached"
    /\ gw.lastPing.ok /\ gw.now - gw.lastPing.at = 29000

\* The externalIds of a search result (index documents carry it as id).
IndexIds(result) == {result[i].id : i \in DOMAIN result}
StoreIds(result) == {result[i].messageId : i \in DOMAIN result}

\* C23 (search fallback equivalence), as claimed: with every stored record indexed, a
\* search served by the index returns the externalIds the store scan returns for the
\* same query and filters, and the other way round.
C23_FallbackEquivalence ==
  \A c \in Calls :
    (gw.calls[c].pc = "done" /\ index = IndexOf(store)) =>
      LET q == gw.calls[c].query
          f == gw.calls[c].filters
      IN  /\ gw.calls[c].path = "index" =>
               IndexIds(gw.calls[c].result) = StoreIds(storeSearch(store, q, f))
          /\ gw.calls[c].path = "store" =>
               StoreIds(gw.calls[c].result) = IndexIds(indexSearch(index, q, f))

\* C24 (search result shape): on the index path and on the fallback path searchEmails
\* returns at most 100 records, newest first, each of which satisfies every supplied
\* account, folder and category filter.
C24_ResultShape ==
  \A c \in Calls :
    (gw.calls[c].pc = "done" /\ gw.calls[c].path \in {"index", "store"}) =>
      LET result == gw.calls[c].result
      IN  /\ Len(result) <= 100
          /\ \A i, j \in DOMAIN result : i < j => result[i].date >= result[j].date
          /\ \A i \in DOMAIN result :
               \A f \in {"account", "folder", "category"} :
                 gw.calls[c].filters[f] # "" => result[i][f] = gw.calls[c].filters[f]

\* C24 witness: the store scan over 101 matching records returned the 100 newest.
C24_Witness ==
  /\ gw.calls[1].pc = "done" /\ gw.calls[1].path = "store"
  /\ gw.calls[1].filters.category = "Spam" /\ gw.calls[1].filters.account # ""
  /\ Len(store) = 101 /\ Len(gw.calls[1].result) = 100
  /\ gw.calls[1].result[1].date = 101 /\ gw.calls[1].result[100].date = 2

\* C25 (sweep touches only uncategorized records), as claimed: a sweep reads at most 100
\* records, and no step of the sweep changes the category of a record that has one, a
\* record categorized by the pipeline after the sweep's query included.
C25_SweepKeepsCategories ==
  /\ [](Len(sweep.batch) <= 100)
  /\ [][sweep' # sweep =>
          \A i \in DOMAIN store :
            store[i].category \notin {Undefined, ""} =>
              store'[i].category = store[i].category]_vars

\* The stored record i has a synthesized externalId (account, time, sequence number).
Synthesized(i) == Len(store[i].messageId) = 3

\* C26 (synthesized-id idempotence within a session), as claimed: processing the same raw
\* message without Message-ID (same account, same sequence number) again yields the
\* same externalId, so the store never holds two records for it.
C26_SynthesizedIdStable ==
  \A i, j \in DOMAIN store :
    (/\ Synthesized(i) /\ Synthesized(j)
     /\ store[i].messageId[1] = store[j].messageId[1]
     /\ store[i].messageId[3] = store[j].messageId[3]) => i = j

\* The classifier gave no verdict: it was not called, or its call failed.
ClassifierUnavailable == ~CallsClassifier(env) \/ heur.outcome.kind = "error"

\* The text the keyword heuristics examine holds none of their markers.
NoMarkers(email) ==
  \A m \in Markers :
    ~includes(LowerText(email.subject, OrElse(email.body, email.html)), m)

\* C27 (no markers means uncategorized): with the classifier unavailable, an email
\* without label hint whose subject and body hold no heuristic marker gets no category
\* from categorizeEmail nor from the pipeline's heuristics; the message "Re: Budget
\* approved - let's proceed" / "Looping in procurement." among them.
C27_NoMarkersUncategorized ==
  (heur.pc = "done" /\ ClassifierUnavailable /\ NoMarkers(heur.email)) =>
    /\ heur.category = Undefined
    /\ heur.resolved.category = Undefined
    /\ heur.catch = Undefined

\* C27 witness: the budget message went through a failed classifier call and every
\* heuristic stage and has no category.
C27_Witness ==
  /\ heur.pc = "done" /\ heur.outcome.kind = "error"
  /\ heur.email.subject = "Re: Budget approved - let's proceed"
  /\ heur.email.body = "Looping in procurement."
  /\ NoMarkers(heur.email)
  /\ heur.resolved.category = Undefined

Cruise(email) ==
  /\ email.subject = "Win a free cruise today!!!"
  /\ email.body = "Congratulations! Click to claim."

\* C28 (promotional text resolves to Spam), as claimed: the message "Win a free cruise
\* today!!!" / "Congratulations! ... Click to claim." gets Spam from the pipeline when the
\* classifier returns nothing or fails, and from the sweep (categorizeEmail alone) when
\* the classifier is unavailable.
C28_CruiseIsSpam ==
  (heur.pc = "done" /\ ~env.dummy /\ Cruise(heur.email)) =>
    /\ (ClassifierUnavailable \/ heur.category = Undefined) => heur.resolved.category = "Spam"
    /\ ClassifierUnavailable => heur.category = "Spam"

\* The handler in slot r created (or is creating) a new record with a label hint.
HintedCreate(r) == runs[r].branch = "create" /\ runs[r].labelCategory # Undefined

BackfillFetches(c) == {f \in DOMAIN c.fetches : c.fetches[f].callback}

\* C30 (backfill then Idle): a connection runs its backfill search once, after its folder
\* opened; an empty result starts Idle at once, a non-empty one is fetched in one stream
\* and Idle starts when that stream is over; the new-mail handler is registered at most
\* once per connection, so one 'mail' event issues one UNSEEN search.
C30_Once ==
  \A a \in Accounts :
    /\ conn[a].mailListeners <= 1
    /\ Cardinality(BackfillFetches(conn[a])) <= 1
    /\ BackfillFetches(conn[a]) # {} => conn[a].phase = "backfill" /\ conn[a].mailListeners = 0
    /\ conn[a].phase \in {"connecting", "openBox", "search"} =>
         conn[a].mailListeners = 0 /\ conn[a].fetches = <<>>

C30_Steps ==
  \A a \in Accounts :
    /\ (conn'[a].phase = "search" /\ conn[a].phase # "search") => conn[a].phase = "openBox"
    /\ (conn'[a].phase = "openBox" /\ conn[a].phase # "openBox") =>
         conn[a].phase = "connecting"
    /\ (conn'[a].phase = "connecting" /\ conn[a].phase # "connecting") =>
         conn'[a].sessions = conn[a].sessions + 1
    /\ (conn[a].phase = "search" /\ conn'[a].phase = "backfill") =>
         /\ Len(conn'[a].fetches) = 1
         /\ conn'[a].fetches[1].left > 0 /\ conn'[a].fetches[1].callback
    /\ (conn[a].phase = "search" /\ conn'[a].mailListeners = 1) =>
         conn'[a].phase = "up" /\ conn'[a].fetches = <<>>
    /\ conn'[a].mailListeners > conn[a].mailListeners =>
         \/ conn[a].phase = "search"
         \/ conn[a].phase = "backfill" /\ BackfillFetches(conn'[a]) = {}
    /\ conn'[a].mails = conn[a].mails + 1 =>
         conn'[a].searches = conn[a].searches + conn[a].mailListeners

SpamLabel(l) ==
  includes(toLowerCase(Chars(l)), "spam") \/ includes(toLowerCase(Chars(l)), "junk")

InterestedLabel(l) == toLowerCase(Chars(l)) = Chars("interested")

ConservativeHint(labels) ==
  IF \E i \in 1..Len(labels) : SpamLabel(labels[i]) THEN "Spam"
  ELSE IF \E i \in 1..Len(labels) : InterestedLabel(labels[i]) THEN "Interested"
  ELSE Undefined

\* C31: the label hint of a message is Spam when its labels hold a spam or junk label,
\* otherwise Interested when they hold the label 'interested', and absent for every other
\* label set: empty or missing labels and labels naming another category included.
C31_ConservativeMapping ==
  \A m \in Fetched :
    fetched[m].body = "parsed" =>
      fetched[m].labelCategory = ConservativeHint(fetched[m].read.list)

\* The hint that the provider attributes of message m stand for.
OwnHint(m) == labelCategoryOf(attributes(NoLabels, fetched[m].raw))

\* C38: the label hint the handler of a fetched message works with is the one derived
\* from that message's own attributes, in whatever order its 'attributes' event, its
\* 'body' event and the end of its parse occur.
C38_HintFromOwnLabels ==
  \A m \in Fetched :
    fetched[m].body = "parsed" => fetched[m].labelCategory = OwnHint(m)

\* C32: a search whose client.search raised index-not-found calls ensureIndexExists once
\* from the catch, goes on to the store scan whether that call created the index, found it
\* or failed, and returns what the store scan returns, never the hits of the index.
C32_Steps ==
  \A c \in Calls :
    /\ (gw.calls[c].pc = "search" /\ gw'.calls[c].notFound) =>
         /\ gw'.calls[c].pc = "recreate"
         /\ gw'.calls[c].ensured = 0
    /\ (gw.calls[c].pc = "recreate" /\ gw'.calls[c] # gw.calls[c]) =>
         /\ gw'.calls[c].pc = "fallback"
         /\ gw'.calls[c].ensured = 1
         /\ gw.es = "up" => gw'.indexExists
    /\ (gw.calls[c].notFound /\ gw.calls[c].pc # "done" /\ gw'.calls[c].pc = "done") =>
         /\ gw.calls[c].ensured = 1
         /\ \/ /\ gw'.calls[c].path = "store"
               /\ gw'.calls[c].result =
                    storeSearch(store, gw.calls[c].query, gw.calls[c].filters)
            \/ /\ gw'.calls[c].path = "store_error"
               /\ gw'.calls[c].result = <<>>

C32_IndexNotFound == [][C32_Steps]_vars

\* C32 witness: the index was deleted after the search had ensured it; the catch created
\* it again and the call still returned the records of the store scan.
C32_Witness ==
  \E c \in Calls :
    /\ gw.calls[c].pc = "done" /\ gw.calls[c].notFound /\ gw.calls[c].ensured = 1
    /\ gw.indexExists /\ index = {}
    /\ gw.calls[c].path = "store" /\ gw.calls[c].result # <<>>

\* The uncategorized records of the store that categorizeEmail gives no category.
Stuck ==
  {j \in DOMAIN store : /\ store[j].category \in {Undefined, ""}
                        /\ categorizeEmail(store[j], env, NoOutcome) = Undefined}

\* At least SweepLimit stuck records precede record i in scan order.
Starved(i) == i > SweepLimit /\ Cardinality({j \in Stuck : j < i}) >= SweepLimit

\* C33: while at least SweepLimit uncategorized records that cannot be categorized precede
\* a record in scan order, every sweep takes its batch from the records before it, and
\* the record stays uncategorized however many sweeps are run.
C33_Starvation ==
  \A i \in DOMAIN store :
    Starved(i) =>
      /\ store[i].category = Undefined
      /\ \A k \in DOMAIN sweep.batch : sweep.batch[k]._id < i

\* C33 witness: MaxBacklogSweeps sweeps have run, each scanned SweepLimit records and
\* failed on all of them, and a record that categorizeEmail would categorize is still
\* uncategorized.
C33_Witness ==
  /\ sweeps = MaxBacklogSweeps /\ sweep.pc = "idle"
  /\ sweep.result = [total |-> SweepLimit, categorized |-> 0, failed |-> SweepLimit]
  /\ \E i \in DOMAIN store :
       /\ Starved(i)
       /\ store[i].category = Undefined
       /\ categorizeEmail(store[i], env, NoOutcome) # Undefined

\* The email the loop of the sweep is working on.
Current == Head(sweep.batch)

\* The sweep responds: the summary is its three counters.
C34_Reports ==
  (sweep.pc = "respond" /\ sweep'.pc = "idle") =>
    /\ sweep'.result = [total |-> sweep.total, categorized |-> sweep.categorized,
                        failed |-> sweep.failed]
    /\ sweep.total <= SweepLimit
    /\ sweep.categorized + sweep.failed = sweep.total

\* C34 as stated: a sweep reports total <= 100 and categorized + failed = total; an email
\* is counted as categorized exactly when the sweep has set its category and re-indexed
\* it, and an email counted as failed has no category in the store afterwards.
C34_SummaryCounts ==
  [][/\ C34_Reports
     /\ sweep'.categorized = sweep.categorized + 1 =>
          /\ store'[Current._id].category = Current.category
          /\ IndexDocument(Current) \in index'
     /\ sweep'.failed = sweep.failed + 1 =>
          store'[Current._id].category \in {Undefined, ""}]_vars

\* While the loop runs, every scanned email is counted once or still to come.
C34_Balance ==
  sweep.pc \in {"categorize", "save", "index", "respond"} =>
    sweep.categorized + sweep.failed + Len(sweep.batch) = sweep.total

C34_Steps ==
  /\ C34_Reports
  /\ (sweep.pc = "save" /\ sweep'.pc = "index") =>
       /\ Current.category \in Categories
       /\ store'[Current._id].category = Current.category
       /\ sweep'.categorized = sweep.categorized /\ sweep'.failed = sweep.failed
  /\ (sweep.pc = "index" /\ sweep' # sweep) =>
       /\ sweep'.categorized = sweep.categorized + 1 /\ sweep'.failed = sweep.failed
       /\ index' \in {index, indexWrite(index, IndexDocument(Current))}
  /\ sweep'.categorized = sweep.categorized + 1 => sweep.pc = "index"
  /\ sweep'.failed = sweep.failed + 1 =>
       /\ sweep.pc \in {"categorize", "save"}
       /\ sweep'.categorized = sweep.categorized
       /\ store' = store /\ index' = index

\* C34 amended: a sweep reports total <= 100 and categorized + failed = total; an email
\* is counted as categorized exactly when the sweep's save of its category has taken
\* effect, whether or not the index write that follows succeeds, and for an email
\* counted as failed the sweep has written nothing to the store or the index.
C34_SummaryOfWrites == [][C34_Steps]_vars /\ []C34_Balance

\* C34 witness: a sweep that scanned two records has reported one categorized and one
\* failed, and the index holds no document with the category it set.
C34_Witness ==
  /\ sweep.pc = "idle"
  /\ sweep.result = [total |-> 2, categorized |-> 1, failed |-> 1]
  /\ \A r \in Runs : runs[r].pc \in {"idle", "done"}
  /\ \E i \in DOMAIN store :
       /\ store[i].category \in Categories
       /\ \A d \in index : d.category # store[i].category

\* C35: when no handler and no sweep is in progress, the Search Index document of a
\* record (id = messageId) carries the category the record has in the Message Store,
\* provided the index writes took effect; records sharing a messageId are left aside.
C35_IndexAgreesWithStore ==
  Quiescent =>
    \A i \in DOMAIN store : \A d \in index :
      (d.id = store[i].messageId /\ Cardinality(RecordsOf(store[i].messageId)) = 1) =>
        d.category = store[i].category

\* C36: every 'mail' notification that arrives on a connected session, one that arrives
\* while the backfill is still running included, makes the connector issue a search for
\* UNSEEN messages.
C36_NotificationSearched ==
  [][\A a \in Accounts :
       (conn'[a].mails = conn[a].mails + 1 /\ conn[a].phase \in {"search", "backfill"}) =>
         conn'[a].searches > conn[a].searches]_vars

\* The account has a session that is neither unborn nor closed.
Live(a) == conn[a].phase \notin {"off", "closed"}

C37_AtMostOne ==
  \A a \in Accounts :
    /\ (IF Live(a) THEN 1 ELSE 0) + conn[a].timers <= 1
    /\ conn[a].phase # "off" => (conn[a].registry = conn[a].sessions /\ conn[a].sessions >= 1)

C37_OneSuccessor ==
  \A a \in Accounts :
    /\ conn'[a].timers > conn[a].timers =>
         /\ conn'[a].timers = conn[a].timers + 1
         /\ conn[a].endListener /\ ~conn'[a].endListener
         /\ conn'[a].sessions = conn[a].sessions
    /\ conn'[a].sessions > conn[a].sessions =>
         /\ conn'[a].sessions = conn[a].sessions + 1
         /\ ~Live(a)
         /\ conn[a].phase # "off" => conn'[a].timers = conn[a].timers - 1

\* C37: an account never has more than one live session and pending reconnect timer in
\* total; a session schedules a successor only from its one-shot 'end' listener, so once
\* at most, and a new session starts only from such a timer (or at start-up); the
\* registry entry of the account is the session created last.
C37_SingleSession == []C37_AtMostOne /\ [][C37_OneSuccessor]_vars

\* C37 witness: the second session of an account is live after the first one ended and
\* its timer fired; the registry points to it and no timer is pending.
C37_Witness ==
  \E a \in Accounts :
    /\ conn[a].sessions = 2 /\ conn[a].registry = 2
    /\ conn[a].phase = "up" /\ conn[a].timers = 0

\* How a searchEmails call can end: [] in dummy mode, the hits of the index, the records
\* of the store scan, or [] after a failed store scan.
Endings == {"dummy", "index", "store", "store_error"}

C39_Ends ==
  \A c \in Calls :
    (gw.calls[c].pc # "done" /\ gw'.calls[c].pc = "done") =>
      /\ gw'.calls[c].path \in Endings
      /\ gw'.calls[c].path = "store_error" =>
           /\ gw.calls[c].pc = "fallback"
           /\ gw'.calls[c].result = <<>>

\* C39: whatever fails, the index service, the index or the store scan, a searchEmails
\* call ends by returning a list; after a failed store scan the list is empty, as it is
\* when nothing matches; and no step of a search changes the Message Store.
C39_ScanFailureIsEmpty == [][C39_Ends /\ store' = store]_vars

\* C39 witness: the index service went down under a search, then the store scan failed
\* too: the call returned [] although the store holds records that match its query.
C39_Witness ==
  \E c \in Calls :
    /\ gw.calls[c].pc = "done" /\ gw.calls[c].path = "store_error"
    /\ gw.calls[c].result = <<>>
    /\ gw.calls[c].isAvailable /\ gw.es = "down"
    /\ storeSearch(store, gw.calls[c].query, gw.calls[c].filters) # <<>>

\* The lower-cased text of the categorized email, for emails whose text is the same for
\* categorizeEmail (subject, body || html) and for the pipeline's lists (subject, body).
HeurText == LowerText(heur.email.subject, heur.email.body)

SameText == OrElse(heur.email.body, heur.email.html) = heur.email.body

Has(marker) == includes(HeurText, marker)

\* The text holds the phrase 'not interested' and no marker besides it and the
\* 'interested' inside it.
OnlyNotInterested ==
  /\ Has("not interested")
  /\ \A m \in Markers \ {"not interested", "interested"} : ~Has(m)

\* Markers that the stage-4 list, and the dummy-mode list, test before 'decline'.
Stage4Higher ==
  {"out of office", "ooo", "auto-reply", "meeting", "schedule", "calendar",
   "interested", "learn more", "pricing"}

DummyHigher ==
  Stage4Higher \cup {"automatic reply", "appointment", "quote", "demo"}

\* A text whose only marker is 'not interested' is Interested for every keyword list, and
\* resolves to Interested, which is notified, when the keyword lists decide.
C40_Shadowed ==
  OnlyNotInterested =>
    /\ heur.stage4 = "Interested"
    /\ heur.catch = "Interested"
    /\ ClassifierUnavailable =>
         /\ heur.category = "Interested"
         /\ heur.resolved.category = "Interested"
         /\ ShouldNotify(heur.resolved)

\* The stage-4 list gives Not Interested only for 'decline' without a marker tested
\* before it; the list of the pipeline's catch block never gives it.
C40_Stage4Decline ==
  /\ heur.stage4 = "Not Interested" => (Has("decline") /\ \A m \in Stage4Higher : ~Has(m))
  /\ heur.catch # "Not Interested"

\* C40 as stated: 'not interested' is shadowed by 'interested' in the keyword heuristics,
\* and they give Not Interested only through the marker 'decline' with no marker of
\* higher priority present.
C40_NotInterestedShadowed ==
  (heur.pc = "done" /\ SameText) =>
    /\ C40_Shadowed
    /\ C40_Stage4Decline
    /\ (ClassifierUnavailable /\ heur.category = "Not Interested") =>
         (Has("decline") /\ \A m \in DummyHigher : ~Has(m))

\* C40 amended: 'not interested' is shadowed by 'interested' in every keyword list; the
\* stage-4 list gives Not Interested only through 'decline', categorizeEmail's list for
\* an unavailable classifier never gives it, and its dummy-mode list gives it through
\* 'decline' or 'unsubscribe', in each case with no marker of higher priority present.
C40_ShadowedExceptDummy ==
  (heur.pc = "done" /\ SameText) =>
    /\ C40_Shadowed
    /\ C40_Stage4Decline
    /\ (ClassifierUnavailable /\ heur.category = "Not Interested") =>
         /\ env.dummy
         /\ Has("decline") \/ Has("unsubscribe")
         /\ \A m \in DummyHigher : ~Has(m)

\* C40 witness: 'Not interested, thanks' / 'Hello' after a failed classifier call: the
\* pipeline resolved it to Interested and notifies.
C40_Witness ==
  /\ heur.pc = "done" /\ ~env.dummy /\ heur.outcome.kind = "error"
  /\ heur.email.subject = "Not interested, thanks" /\ heur.email.body = "Hello"
  /\ OnlyNotInterested
  /\ heur.resolved.category = "Interested" /\ heur.stage4 = "Interested"
  /\ ShouldNotify(heur.resolved)

====
